---- MODULE Spec2Model ----
(***************************************************************************)
(* A model of the WIZnet W5500 driver of src/lib/wiznet5k.py (class        *)
(* WIZNET5K): the bus transactions every driver call issues, the socket    *)
(* operations, the TX/RX pointer arithmetic and the write-verify-retry     *)
(* register access.                                                        *)
(*                                                                         *)
(* The chip is the environment.  A driver call is one action; the values   *)
(* the chip returns for the registers the call reads (PHY configuration,   *)
(* socket status, free size, pointers, interrupt flags) are chosen by the  *)
(* environment in that action.  `bus' is the list of bus transactions the  *)
(* last call issued, with the address and control byte exactly as the      *)
(* driver clocked them out.                                                *)
(***************************************************************************)
EXTENDS Integers, Sequences, FiniteSets, TLC

\* ---------------------------------------------------------------- registers
REG_MR == 0
REG_GAR == 1
REG_SUBR == 5
REG_SHAR == 9
REG_SIPR == 15
REG_VERSIONR_W5500 == 57
REG_PHYCFGR == 46

REG_SNMR == 0
REG_SNCR == 1
REG_SNIR == 2
REG_SNSR == 3
REG_SNPORT == 4
REG_SNDIPR == 12
REG_SNDPORT == 16
REG_SNTX_FSR == 32
REG_SNTX_WR == 36
REG_SNRX_RSR == 38
REG_SNRX_RD == 40

SNSR_SOCK_CLOSED == 0
SNSR_SOCK_INIT == 19
SNSR_SOCK_LISTEN == 20
SNSR_SOCK_SYNSENT == 21
SNSR_SOCK_SYNRECV == 22
SNSR_SOCK_ESTABLISHED == 23
SNSR_SOCK_FIN_WAIT == 24
SNSR_SOCK_CLOSING == 26
SNSR_SOCK_TIME_WAIT == 27
SNSR_SOCK_CLOSE_WAIT == 28
SNSR_SOCK_LAST_ACK == 29
SNSR_SOCK_UDP == 34
SNSR_SOCK_IPRAW == 50
SNSR_SOCK_MACRAW == 66
SNSR_SOCK_PPPOE == 95

CMD_SOCK_OPEN == 1
CMD_SOCK_LISTEN == 2
CMD_SOCK_CONNECT == 4
CMD_SOCK_DISCON == 8
CMD_SOCK_CLOSE == 16
CMD_SOCK_SEND == 32
CMD_SOCK_RECV == 64

SNIR_SEND_OK == 16

CH_SIZE == 256
SOCK_SIZE == 2048
SNMR_TCP == 33
SNMR_UDP == 2
W5200_W5500_MAX_SOCK_NUM == 8
SOCKET_INVALID == 255

\* detect_w5500 always leaves these two values behind
chip_type == "w5500"
ch_base_msb == 16

\* max_sockets property
max_sockets == IF chip_type = "w5500" THEN W5200_W5500_MAX_SOCK_NUM ELSE -1

\* the values of the status register the driver names
Status ==
    { SNSR_SOCK_CLOSED, SNSR_SOCK_INIT, SNSR_SOCK_LISTEN, SNSR_SOCK_SYNSENT,
      SNSR_SOCK_SYNRECV, SNSR_SOCK_ESTABLISHED, SNSR_SOCK_FIN_WAIT,
      SNSR_SOCK_CLOSING, SNSR_SOCK_TIME_WAIT, SNSR_SOCK_CLOSE_WAIT,
      SNSR_SOCK_LAST_ACK, SNSR_SOCK_UDP, SNSR_SOCK_IPRAW, SNSR_SOCK_MACRAW,
      SNSR_SOCK_PPPOE }

Modes == { SNMR_TCP, SNMR_UDP }

\* ------------------------------------------------------------------ bounds
\* extra iterations a polling loop may take before its condition is met
MaxPolls == 1
\* slots that may hold an ephemeral source port at the same time
MaxPorts == 1
\* octets of one set_ifconfig whose writes the chip may miss
MaxFaulty == 1
\* times the chip changes Sn_TX_FSR between two reads during one socket_write
MaxUpdates == 2
\* the clock is followed up to this time after the start of a socket_write
MaxClock == 2

\* ------------------------------------------------------------ input samples
\* chip slots, and the slot numbers a caller may pass (two beyond the chip's)
Slots == 0 .. (W5200_W5500_MAX_SOCK_NUM - 1)
SlotArgs == 0 .. (W5200_W5500_MAX_SOCK_NUM + 1)
BadSlots == { s \in SlotArgs : s >= W5200_W5500_MAX_SOCK_NUM }
\* the slots the per-slot calls are exercised on: first, second, last, and
\* the two beyond the chip's
SlotPair == { 0, 1 }
SlotSample == { 0, 1, W5200_W5500_MAX_SOCK_NUM - 1 } \cup BadSlots
\* PHYCFGR: link down / link up, 100 Mbit, full duplex
PhyValues == { 184, 191 }
\* randint(49152, 65535)
EphemeralPorts == { 49152, 65535 }
\* ports a caller listens on or connects to (0: none given)
CallerPorts == { 0, 80 }
\* ports a caller listens on (0: none given; 49152: one of the ephemeral range)
ListenPorts == { 0, 49152 }
\* status of a slot once the chip has seen (or missed) the OPEN command
\* the tasks that may call into the driver
Tasks == { 1, 2 }
PostOpen == { SNSR_SOCK_CLOSED, SNSR_SOCK_INIT, SNSR_SOCK_UDP }
\* non-CLOSED statuses of the slots get_socket scans
BusyStatus == { SNSR_SOCK_INIT, SNSR_SOCK_ESTABLISHED, SNSR_SOCK_UDP }
\* the registers the verified writes are followed in: MR and SIPR of the
\* common block (0), and the same addresses of block 1 (socket 0's registers)
RegLocs == { 0, 1 } \X { REG_MR, REG_SIPR }

VARIABLES
    snsr,       \* chip: status register of every slot as the call in progress left it
    src_port,   \* self.src_port
    SRC_PORTS,  \* module-level table of ephemeral source ports
    UDP_SOCK,   \* module-level UDP receive-header cache
    mem,        \* chip: the registers the verified writes go to, by <<block, address>>
    call,       \* the last driver call and what it read from the chip
    result,     \* what the call returned or raised
    bus,        \* the bus transactions the call issued, in order
    cs,         \* level of the chip-select pin (0: asserted)
    task,       \* per task: the read or write it is in, and the events it has put on the bus
    dns,        \* self._dns
    sn_port,    \* chip: the source port register of every slot, as last written
    tx,         \* the socket_write call followed statement by statement
    socknum,    \* per caller: the slot get_socket has handed it, until it is closed
    udp_slot,   \* the slot whose datagram header UDP_SOCK holds
    conn        \* the socket_connect call followed statement by statement

vars == << snsr, src_port, SRC_PORTS, UDP_SOCK, mem, call, result, bus, cs, task, dns, sn_port, tx,
          socknum, udp_slot, conn >>

\* ------------------------------------------------------------ python values
\* a returned int, a returned bytes object (v: its first byte), or an exception
Int_(v) == [t |-> "int", v |-> v]
Bytes_(v) == [t |-> "bytes", v |-> v]
None_ == [t |-> "None", v |-> 0]
Raise(e) == [t |-> e, v |-> 0]
Errors == { "AssertionError", "ValueError", "RuntimeError", "IndexError",
            "UnboundLocalError" }
IsError(r) == r.t \in Errors

Min(a, b) == IF a < b THEN a ELSE b

\* ------------------------------------------------------------ bus transport
\* bytes([x]) accepts 0..255 only
ByteOk(x) == x \in 0 .. 255

\* WIZNET5K.read: CS low, addr>>8, addr&0xFF, callback, readinto(n), CS high.
\* `sent' counts the bytes clocked before bytes([..]) raised ValueError.
read(addr, callback, length) ==
    LET hdr == IF ~ByteOk(addr \div 256) THEN 0
               ELSE IF ~ByteOk(callback) THEN 2 ELSE 3
    IN [rw |-> "R", addr |-> addr, cb |-> callback, n |-> length, val |-> -1,
        ok |-> hdr = 3, sent |-> IF hdr = 3 THEN 3 + length ELSE hdr]

\* WIZNET5K.write with an int: one data byte
write(addr, callback, data) ==
    LET hdr == IF ~ByteOk(addr \div 256) THEN 0
               ELSE IF ~ByteOk(callback) THEN 2 ELSE 3
    IN [rw |-> "W", addr |-> addr, cb |-> callback, n |-> 1, val |-> data,
        ok |-> hdr = 3 /\ ByteOk(data),
        sent |-> IF hdr = 3 /\ ByteOk(data) THEN 4 ELSE hdr]

\* WIZNET5K.write with a bytes object of n bytes, each clocked in turn
write_buffer(addr, callback, n) ==
    LET hdr == IF ~ByteOk(addr \div 256) THEN 0
               ELSE IF ~ByteOk(callback) THEN 2 ELSE 3
    IN [rw |-> "W", addr |-> addr, cb |-> callback, n |-> n, val |-> -1,
        ok |-> hdr = 3, sent |-> IF hdr = 3 THEN 3 + n ELSE hdr]

\* _read_socket / _write_socket
read_socket(sock, address) == read(address, sock * 32 + 8, 1)
write_socket(sock, address, data) ==
    write(ch_base_msb * 256 + sock * CH_SIZE + address, sock * 32 + 12, data)

\* link_status: bit 0 of PHYCFGR
link_read == read(REG_PHYCFGR, 0, 1)
\* (mutant: the link is taken to be up whatever PHYCFGR reads)
link_status_up(phy) == 1
link_status(phy) == IF chip_type = "w5500" THEN phy % 2 ELSE 0

\* the block a control byte selects (bits 7..3) and its write flag (bit 2)
BlockOf(cb) == cb \div 8
IsWriteCb(cb) == (cb \div 4) % 2 = 1
SocketTxBlock(sock) == 4 * sock + 2

Writes(log) == { i \in 1 .. Len(log) : log[i].rw = "W" }
Range(f) == { f[x] : x \in DOMAIN f }
Last(s) == s[Len(s)]
\* a run of k identical reads
Repeat(t, k) == [i \in 1 .. k |-> t]

\* the record kept of a call; fields a call does not use are 0
Call(op, slot) ==
    [op |-> op, slot |-> slot, mode |-> 0, port |-> 0, length |-> 0,
     timeout |-> 0, phy |-> 0, st0 |-> 0, ptr |-> 0, size |-> 0, cr |-> 0,
     seen |-> << >>, params |-> << >>, post |-> 0]

AllClosed == [s \in Slots |-> SNSR_SOCK_CLOSED]

\* no call is in progress: the caller has taken the last call's outcome
Idle == call.op = "idle"

\* the caller takes the outcome of the call; the driver is idle again
call_returns ==
    /\ ~Idle
    /\ call' = Call("idle", 0)
    /\ result' = None_
    /\ bus' = << >>
    /\ snsr' = AllClosed
    /\ UNCHANGED << socknum, udp_slot, conn, src_port, SRC_PORTS, UDP_SOCK, mem, cs, task, dns, sn_port, tx >>

\* ------------------------------------------------------------- socket_open
Openable ==
    { SNSR_SOCK_CLOSED, SNSR_SOCK_TIME_WAIT, SNSR_SOCK_FIN_WAIT,
      SNSR_SOCK_CLOSE_WAIT, SNSR_SOCK_CLOSING, SNSR_SOCK_UDP, SNSR_SOCK_LISTEN }

\* (mutant: the status check lets every status through)
open_allowed_any(status) == TRUE
\* the status check of socket_open (line 854)
open_allowed(status) == status \in Openable

\* the final assert of socket_open: first read is INIT, or second read is UDP
open_reached(r1, r2) == r1 = SNSR_SOCK_INIT \/ r2 = SNSR_SOCK_UDP

\* socket_open as a function of what the chip answers: phy (PHYCFGR), st0
\* (status on entry), post (status after the OPEN command), eph (the port
\* randint settles on).  Yields the outcome r, the transactions, the port
\* table and the slot's status afterwards.
socket_open_run(slot, conn_mode, srcp, ports, phy, st0, post, eph) ==
    LET t_st == read_socket(slot, REG_SNSR)
        port == IF srcp > 0 THEN srcp ELSE eph
        w1 == << write_socket(slot, REG_SNMR, conn_mode),
                 write_socket(slot, REG_SNIR, 255),
                 write_socket(slot, REG_SNPORT, port \div 256),
                 write_socket(slot, REG_SNPORT + 1, port % 256) >>
        ports1 == IF srcp > 0 THEN ports ELSE [ports EXCEPT ![slot] = eph]
        w2 == << write_socket(slot, REG_SNCR, CMD_SOCK_OPEN),
                 read_socket(slot, REG_SNCR), t_st >>
             \o (IF post = SNSR_SOCK_INIT THEN << >> ELSE << t_st >>)
    IN  IF link_status(phy) = 0
        THEN [r |-> Raise("AssertionError"), log |-> << link_read >>,
              ports |-> ports, st |-> st0]
        ELSE IF ~t_st.ok
        THEN [r |-> Raise("ValueError"), log |-> << link_read, t_st >>,
              ports |-> ports, st |-> st0]
        ELSE IF ~open_allowed(st0)
        THEN [r |-> Int_(1), log |-> << link_read, t_st >>,
              ports |-> ports, st |-> st0]
        ELSE IF ~open_reached(post, post)
        THEN [r |-> Raise("AssertionError"), log |-> << link_read, t_st >> \o w1 \o w2,
              ports |-> ports1, st |-> post]
        ELSE [r |-> Int_(0), log |-> << link_read, t_st >> \o w1 \o w2,
              ports |-> ports1, st |-> post]

\* statuses a slot is entered with by listen and connect
EntryStatus == { SNSR_SOCK_CLOSED, SNSR_SOCK_ESTABLISHED, SNSR_SOCK_UDP }

\* what the chip may answer to an open on `slot': a value the call does not
\* get to read is left at its first choice; the port table holds at most
\* MaxPorts ephemeral ports.
OpenEnv(slot, srcp, ports, entry) ==
    { e \in [phy : PhyValues, st0 : entry, post : PostOpen, eph : EphemeralPorts] :
        LET reads_st == slot \in Slots /\ link_status(e.phy) = 1
            opens == reads_st /\ open_allowed(e.st0)
            free == EphemeralPorts \ Range(ports)
        IN  /\ reads_st \/ slot \in Slots \/ e.st0 = SNSR_SOCK_CLOSED
            /\ opens \/ e.post = SNSR_SOCK_CLOSED
            /\ e.eph \in free
            /\ (opens /\ srcp = 0) \/ e.eph = CHOOSE p \in free : TRUE
            /\ (opens /\ srcp = 0) =>
                 Cardinality({ s \in Slots : ports[s] # 0 } \cup {slot}) <= MaxPorts }

Slot_status(s, slot, st) == IF slot \in Slots THEN [s EXCEPT ![slot] = st] ELSE s

\* the chip's source port registers after the transactions of a call:
\* _write_sock_port stores the two bytes of the port in Sn_PORT
port_written(sp, slot, log) ==
    LET a0 == ch_base_msb * 256 + slot * CH_SIZE + REG_SNPORT
        hi == { i \in Writes(log) : log[i].addr = a0 /\ log[i].ok }
        lo == { i \in Writes(log) : log[i].addr = a0 + 1 /\ log[i].ok }
    IN  IF slot \in Slots /\ hi # {} /\ lo # {}
        THEN [sp EXCEPT ![slot] = 256 * log[CHOOSE i \in hi : TRUE].val
                                  + log[CHOOSE i \in lo : TRUE].val]
        ELSE sp

socket_open(S) ==
    Idle /\
    \E slot \in S, conn_mode \in Modes :
    \E e \in OpenEnv(slot, src_port, SRC_PORTS, Status) :
        \E o \in { socket_open_run(slot, conn_mode, src_port, SRC_PORTS,
                                   e.phy, e.st0, e.post, e.eph) } :
            /\ call' = [Call("socket_open", slot) EXCEPT
                          !.mode = conn_mode, !.phy = e.phy, !.st0 = e.st0,
                          !.post = e.post]
            /\ result' = o.r
            /\ bus' = o.log
            /\ SRC_PORTS' = o.ports
            /\ sn_port' = port_written(sn_port, slot, o.log)
            /\ snsr' = Slot_status(AllClosed, slot, o.st)
            /\ UNCHANGED << socknum, udp_slot, conn, src_port, UDP_SOCK, mem, cs, task, dns, tx >>

\* ----------------------------------------------------------- _send_socket_cmd
\* writes the command, then reads Sn_CR until it reads 0: k reads find it set
send_socket_cmd(slot, cmd, k) ==
    << write_socket(slot, REG_SNCR, cmd) >>
    \o Repeat(read_socket(slot, REG_SNCR), k + 1)

\* ------------------------------------------------------------- socket_listen
ListenReady == { SNSR_SOCK_LISTEN, SNSR_SOCK_ESTABLISHED, SNSR_SOCK_UDP }

\* statuses the wait loop of socket_listen is answered with
ListenReads ==
    { SNSR_SOCK_INIT, SNSR_SOCK_LISTEN, SNSR_SOCK_ESTABLISHED, SNSR_SOCK_UDP,
      SNSR_SOCK_CLOSED }
\* the status reads a wait loop may be answered with, one after the other
ReadsUpTo(S, n) == UNION { [1 .. m -> S] : m \in 1 .. n }

\* the wait loop of socket_listen (lines 825-830) on the statuses sts, from
\* the i-th read: every status read is tested for CLOSED, then for readiness
\* (mutant: a CLOSED status does not end the wait)
listen_closed_never(status) == FALSE
\* the test of line 829
listen_closed(status) == status = SNSR_SOCK_CLOSED

RECURSIVE listen_wait(_, _)
listen_wait(sts, i) ==
    IF i > Len(sts) THEN [end |-> "more", at |-> i]
    ELSE IF listen_closed(sts[i]) THEN [end |-> "closed", at |-> i]
    ELSE IF sts[i] \in ListenReady THEN [end |-> "ready", at |-> i]
    ELSE listen_wait(sts, i + 1)

\* phy: PHYCFGR as read by the call's own assert, phy1: as read by the assert
\* of socket_open; sts: what the status reads of the wait loop return; k:
\* reads of the command register that find the command still set.  `sp' is
\* self.src_port afterwards, `seen' the statuses the wait loop has read.
socket_listen_run(slot, port, conn_mode, srcp, ports, phy, phy1, st0, post, eph, k, sts) ==
    LET o == socket_open_run(slot, conn_mode, port, ports, phy1, st0, post, eph)
        wait == Repeat(read_socket(slot, REG_SNSR), Len(sts))
        log == << link_read >> \o o.log \o send_socket_cmd(slot, CMD_SOCK_LISTEN, k) \o wait
    IN  IF link_status(phy) = 0
        THEN [r |-> Raise("AssertionError"), log |-> << link_read >>,
              ports |-> ports, st |-> st0, sp |-> srcp, seen |-> << >>]
        ELSE IF IsError(o.r)
        THEN [r |-> o.r, log |-> << link_read >> \o o.log,
              ports |-> o.ports, st |-> o.st, sp |-> port, seen |-> << >>]
        ELSE IF o.r.v = 1
        THEN [r |-> Raise("RuntimeError"), log |-> << link_read >> \o o.log,
              ports |-> o.ports, st |-> o.st, sp |-> 0, seen |-> << >>]
        ELSE IF listen_wait(sts, 1).end = "closed"
        THEN [r |-> Raise("RuntimeError"), log |-> log,
              ports |-> o.ports, st |-> Last(sts), sp |-> 0, seen |-> sts]
        ELSE [r |-> None_, log |-> log, ports |-> o.ports, st |-> Last(sts),
              sp |-> 0, seen |-> sts]

\* the env of an open that runs to its end leaves the later reads to choose
Proceeds(slot, e) ==
    /\ slot \in Slots
    /\ link_status(e.phy) = 1
    /\ open_allowed(e.st0)
    /\ open_reached(e.post, e.post)

socket_listen(S) ==
    Idle /\
    \* the loop ends on the last status given
    \E sts \in { r \in ReadsUpTo(ListenReads, MaxPolls + 1) :
                    /\ listen_wait(r, 1).end # "more"
                    /\ listen_wait(r, 1).at = Len(r) } :
    \E slot \in S, port \in ListenPorts, conn_mode \in Modes :
    \E phy \in PhyValues, e \in OpenEnv(slot, port, SRC_PORTS, EntryStatus) :
    \E k \in 0 .. MaxPolls :
        \* socket_open is not entered with the link found down
        /\ link_status(phy) = 1 \/ e.phy = phy
        /\ Proceeds(slot, e) \/ (k = 0 /\ sts = << SNSR_SOCK_CLOSED >>)
        /\ \E o \in { socket_listen_run(slot, port, conn_mode, src_port,
                                         SRC_PORTS, phy, e.phy, e.st0, e.post,
                                         e.eph, k, sts) } :
            /\ call' = [Call("socket_listen", slot) EXCEPT
                          !.mode = conn_mode, !.port = port, !.phy = phy,
                          !.st0 = e.st0, !.seen = o.seen, !.post = e.post]
            /\ result' = o.r
            /\ bus' = o.log
            /\ SRC_PORTS' = o.ports
            /\ src_port' = o.sp
            /\ sn_port' = port_written(sn_port, slot, o.log)
            /\ snsr' = Slot_status(AllClosed, slot, o.st)
            /\ UNCHANGED << socknum, udp_slot, conn, UDP_SOCK, mem, cs, task, dns, tx >>

\* ------------------------------------------------------------ socket_connect
\* the slot whose datagram the cache describes after a call on `slot' that
\* leaves the cache as udp: none once no byte remains, `slot' when the call
\* has parsed a header
udp_slot_after(udp, slot, parsed) ==
    IF udp.bytes_remaining = 0 THEN SOCKET_INVALID
    ELSE IF parsed THEN slot ELSE udp_slot

DestIp == << 10, 0, 0, 5 >>

\* (mutant: the destination port is written before the destination address)
write_dest_port_first(slot, dest, port) ==
    << write_socket(slot, REG_SNDPORT, port \div 256),
       write_socket(slot, REG_SNDPORT + 1, port % 256) >>
    \o [i \in 1 .. 4 |-> write_socket(slot, REG_SNDIPR + (i - 1), dest[i])]
\* _write_sndipr, _write_sndport
write_dest(slot, dest, port) ==
    [i \in 1 .. 4 |-> write_socket(slot, REG_SNDIPR + (i - 1), dest[i])]
    \o << write_socket(slot, REG_SNDPORT, port \div 256),
          write_socket(slot, REG_SNDPORT + 1, port % 256) >>

\* statuses the wait loop of socket_connect is answered with
ConnectReads == { SNSR_SOCK_SYNSENT, SNSR_SOCK_ESTABLISHED, SNSR_SOCK_CLOSED }

\* the wait loop of socket_connect (lines 771-778) on the statuses sts, from
\* the i-th read: the loop condition reads the status and tests it for
\* ESTABLISHED; the body reads it again and tests that one for CLOSED
\* (mutant: a CLOSED status does not end the wait)
connect_failed_never(status) == FALSE
\* the test of line 777
connect_failed(status) == status = SNSR_SOCK_CLOSED

RECURSIVE connect_wait(_, _)
connect_wait(sts, i) ==
    IF i > Len(sts) THEN [end |-> "more", at |-> i]
    ELSE IF sts[i] = SNSR_SOCK_ESTABLISHED THEN [end |-> "ready", at |-> i]
    ELSE IF i + 1 > Len(sts) THEN [end |-> "more", at |-> i + 1]
    ELSE IF connect_failed(sts[i + 1]) THEN [end |-> "closed", at |-> i + 1]
    ELSE connect_wait(sts, i + 2)

\* phy, phy1: PHYCFGR as read by the call's own assert and by the assert of
\* socket_open.  TCP: sts is what the status reads of the wait loop return.
socket_connect_run(slot, dest, port, conn_mode, srcp, ports, udp, phy, phy1, st0, post, eph, k, sts) ==
    LET o == socket_open_run(slot, conn_mode, srcp, ports, phy1, st0, post, eph)
        wait == IF conn_mode # SNMR_TCP THEN << >>
                ELSE Repeat(read_socket(slot, REG_SNSR), Len(sts))
        log == << link_read >> \o o.log \o write_dest(slot, dest, port)
               \o send_socket_cmd(slot, CMD_SOCK_CONNECT, k) \o wait
    IN  IF link_status(phy) = 0
        THEN [r |-> Raise("AssertionError"), log |-> << link_read >>,
              ports |-> ports, st |-> st0, udp |-> udp, seen |-> << >>]
        ELSE IF IsError(o.r)
        THEN [r |-> o.r, log |-> << link_read >> \o o.log,
              ports |-> o.ports, st |-> o.st, udp |-> udp, seen |-> << >>]
        ELSE IF o.r.v = 1
        THEN [r |-> Raise("RuntimeError"), log |-> << link_read >> \o o.log,
              ports |-> o.ports, st |-> o.st, udp |-> udp, seen |-> << >>]
        ELSE IF conn_mode = SNMR_TCP /\ connect_wait(sts, 1).end = "closed"
        THEN [r |-> Raise("RuntimeError"), log |-> log,
              ports |-> o.ports, st |-> Last(sts), udp |-> udp, seen |-> sts]
        ELSE IF conn_mode = SNMR_TCP
        THEN [r |-> Int_(1), log |-> log, ports |-> o.ports, st |-> Last(sts),
              udp |-> udp, seen |-> sts]
        ELSE [r |-> Int_(1), log |-> log, ports |-> o.ports, st |-> o.st,
              udp |-> [udp EXCEPT !.bytes_remaining = 0], seen |-> << >>]

socket_connect(S) ==
    Idle /\
    \* the loop ends on the last status given
    \E sts \in { r \in ReadsUpTo(ConnectReads, 2 * MaxPolls + 2) :
                    /\ connect_wait(r, 1).end # "more"
                    /\ connect_wait(r, 1).at = Len(r) } :
    \E slot \in S, port \in CallerPorts \ {0}, conn_mode \in Modes :
    \E phy \in PhyValues, e \in OpenEnv(slot, src_port, SRC_PORTS, EntryStatus) :
    \E k \in 0 .. MaxPolls :
        \* socket_open is not entered with the link found down
        /\ link_status(phy) = 1 \/ e.phy = phy
        /\ (Proceeds(slot, e) /\ conn_mode = SNMR_TCP)
           \/ (sts = << SNSR_SOCK_ESTABLISHED >> /\ (Proceeds(slot, e) \/ k = 0))
        /\ \E o \in { socket_connect_run(slot, DestIp, port, conn_mode, src_port,
                                          SRC_PORTS, UDP_SOCK, phy, e.phy, e.st0,
                                          e.post, e.eph, k, sts) } :
            /\ call' = [Call("socket_connect", slot) EXCEPT
                          !.mode = conn_mode, !.port = port, !.phy = phy,
                          !.st0 = e.st0, !.seen = o.seen, !.post = e.post]
            /\ result' = o.r
            /\ bus' = o.log
            /\ SRC_PORTS' = o.ports
            /\ UDP_SOCK' = o.udp
            /\ udp_slot' = udp_slot_after(o.udp, slot, FALSE)
            /\ sn_port' = port_written(sn_port, slot, o.log)
            /\ snsr' = Slot_status(AllClosed, slot, o.st)
            /\ UNCHANGED << socknum, conn, src_port, mem, cs, task, dns, tx >>

\* ------------------------------------------------------------- socket_status
socket_status(S) ==
    Idle /\
    \E slot \in S, st \in Status :
        LET t == read_socket(slot, REG_SNSR)
        IN  /\ slot \in Slots \/ st = SNSR_SOCK_CLOSED
            /\ call' = [Call("socket_status", slot) EXCEPT !.st0 = st]
            /\ result' = IF t.ok THEN Bytes_(st) ELSE Raise("ValueError")
            /\ bus' = << t >>
            /\ snsr' = Slot_status(AllClosed, slot, st)
            /\ UNCHANGED << socknum, udp_slot, conn, src_port, SRC_PORTS, UDP_SOCK, mem, cs, task, dns, sn_port, tx >>

\* ---------------------------------------------------------------- get_socket
\* the scan of get_socket over the statuses it reads: the slot it returns
RECURSIVE scan(_, _)
scan(st, i) ==
    IF i >= max_sockets THEN SOCKET_INVALID
    ELSE IF st[i] = SNSR_SOCK_CLOSED THEN i
    ELSE scan(st, i + 1)

\* (mutant: some CLOSED slot, the highest, instead of the first)
get_socket_highest(st) ==
    IF \E s \in Slots : st[s] = SNSR_SOCK_CLOSED
    THEN CHOOSE s \in Slots : st[s] = SNSR_SOCK_CLOSED
                               /\ \A u \in Slots : st[u] = SNSR_SOCK_CLOSED => u <= s
    ELSE SOCKET_INVALID
get_socket_result(st) == scan(st, 0)

\* the status reads the scan issues: slots 0 .. the one returned
get_socket_log(st) ==
    LET r == get_socket_result(st)
        last == IF r = SOCKET_INVALID THEN max_sockets - 1 ELSE r
    IN [i \in 1 .. (last + 1) |-> read_socket(i - 1, REG_SNSR)]

\* called by one of the tasks T, which keeps the slot it is handed
get_socket(T) ==
    Idle /\
    \E t \in T, closed \in SUBSET Slots, busy \in BusyStatus :
        LET st == [s \in Slots |-> IF s \in closed THEN SNSR_SOCK_CLOSED ELSE busy]
        IN  /\ call' = Call("get_socket", 0)
            /\ result' = Int_(get_socket_result(st))
            /\ bus' = get_socket_log(st)
            /\ snsr' = st
            /\ socknum' = [socknum EXCEPT ![t] = get_socket_result(st)]
            /\ UNCHANGED << udp_slot, conn, src_port, SRC_PORTS, UDP_SOCK, mem, cs, task, dns, sn_port, tx >>

\* ------------------------------------------------- _get_tx_free_size et al.
\* _read_sntx_fsr / _read_snrx_rsr: the two bytes of a size register
read_size(sock, reg) == << read_socket(sock, reg), read_socket(sock, reg + 1) >>

\* _get_tx_free_size / _get_rx_rcv_size: one read, then rounds of two reads
\* until both agree; k rounds disagree before the round that agrees
get_size_log(sock, reg, k) ==
    LET round == read_size(sock, reg) \o read_size(sock, reg)
        RECURSIVE rounds(_)
        rounds(i) == IF i = 0 THEN << >> ELSE round \o rounds(i - 1)
    IN read_size(sock, reg) \o rounds(k + 1)

\* the two bytes a read of a size register may return (0, 100 and 2048)
SizeReads == { << 0, 0 >>, << 0, 100 >>, << 8, 0 >> }
\* int.from_bytes(val, "b"): the first byte is the high one
from_bytes(b) == b[1] * 256 + b[2]

\* (mutant: the loop ends as it does but the first read is what is returned)
RECURSIVE size_loop_stale(_, _, _, _)
size_loop_stale(reads, val, val_1, j) ==
    IF val = val_1 THEN [end |-> "done", r |-> from_bytes(reads[1]), used |-> j - 1]
    ELSE IF j + 1 > Len(reads) THEN [end |-> "more", r |-> 0, used |-> j - 1]
    ELSE size_loop_stale(reads, reads[j + 1], reads[j], j + 2)

\* the loop of _get_tx_free_size / _get_rx_rcv_size: val starts as the int 0
\* (here the empty sequence, equal to no two bytes read), val_1 as the first
\* read; every round reads val_1 and, val_1 being a bytearray and so never
\* equal to 0, val; the loop ends when the two are equal.  reads[j] is the
\* next read.
RECURSIVE size_loop(_, _, _, _)
size_loop(reads, val, val_1, j) ==
    IF val = val_1 THEN [end |-> "done", r |-> from_bytes(val), used |-> j - 1]
    ELSE IF j + 1 > Len(reads) THEN [end |-> "more", r |-> 0, used |-> j - 1]
    ELSE size_loop(reads, reads[j + 1], reads[j], j + 2)

\* a call of _get_tx_free_size (reg = REG_SNTX_FSR) or _get_rx_rcv_size
\* (reg = REG_SNRX_RSR) answered with `reads'
get_size(op, S, reg) ==
    Idle /\
    \E slot \in S, reads \in ReadsUpTo(SizeReads, 2 * MaxPolls + 3) :
        \E o \in { size_loop(reads, << >>, reads[1], 2) } :
            LET first == read_socket(slot, reg)
                RECURSIVE log(_)
                log(i) == IF i = 0 THEN << >> ELSE read_size(slot, reg) \o log(i - 1)
            IN  /\ IF first.ok THEN o.end = "done" /\ o.used = Len(reads)
                               ELSE Len(reads) = 1 /\ reads[1] = << 0, 0 >>
                /\ call' = [Call(op, slot) EXCEPT !.seen = reads]
                /\ result' = IF first.ok THEN Int_(o.r) ELSE Raise("ValueError")
                /\ bus' = IF first.ok THEN log(Len(reads)) ELSE << first >>
                /\ snsr' = AllClosed
                /\ UNCHANGED << socknum, udp_slot, conn, src_port, SRC_PORTS, UDP_SOCK, mem, cs, task, dns,
                                sn_port, tx >>

get_tx_free_size(S) == get_size("_get_tx_free_size", S, REG_SNTX_FSR)
get_rx_rcv_size(S) == get_size("_get_rx_rcv_size", S, REG_SNRX_RSR)

\* ------------------------------------------------------------- socket_write
\* payload lengths, TX free sizes and TX write pointers the chip is tried with
Lengths == { 0, 100, 2048, 2049, 5000 }
FreeSizes == { 0, 100, 2048 }
Pointers == { 0, 2000, 65000 }
Timeouts == { 0, 1 }
\* statuses a slot is written or read in
DataStatus ==
    { SNSR_SOCK_CLOSED, SNSR_SOCK_INIT, SNSR_SOCK_LISTEN, SNSR_SOCK_ESTABLISHED,
      SNSR_SOCK_FIN_WAIT, SNSR_SOCK_CLOSE_WAIT, SNSR_SOCK_UDP }

\* base of a slot's buffer region as socket_write computes it (line 980)
slot_base(sock) == sock * 2048 + 32768

\* the clip of the payload length (lines 964-967)
clip(n) == IF n > SOCK_SIZE THEN SOCK_SIZE ELSE n
\* the number of payload bytes put on the bus by self.write(dst_addr, ..,
\* buffer) and added to the pointer: len(buffer), not the clipped ret
tx_count(n, ret) == n
\* the new TX write pointer (line 982)
tx_advance(ptr, n) == (ptr + n) % 65536
\* the destination address (lines 979-980)
tx_dst_addr(sock, ptr) == (ptr % 2048) + slot_base(sock)

WaitOk == { SNSR_SOCK_ESTABLISHED, SNSR_SOCK_CLOSE_WAIT }
SendAbort ==
    { SNSR_SOCK_CLOSED, SNSR_SOCK_TIME_WAIT, SNSR_SOCK_FIN_WAIT,
      SNSR_SOCK_CLOSE_WAIT, SNSR_SOCK_CLOSING }

\* _write_sntx_wr, _write_snrx_rd
write_pointer(sock, reg, data) ==
    << write_socket(sock, reg, (data \div 256) % 256),
       write_socket(sock, reg + 1, data % 256) >>
\* _read_sntx_wr, _read_snrx_rd
read_pointer(sock, reg) == << read_socket(sock, reg), read_socket(sock, reg + 1) >>

\* does the wait for TX space (lines 971-976) end, and with what ret?
\* fsr0: free size first read; fsr1: free size read in the last round of the
\* loop; st: the slot's status; exp1: the timeout had elapsed by then
wait_needed(n, fsr0) == fsr0 < clip(n)
\* (mutant: the wait is given up on the status only, never on the time)
wait_gives_up_status(timeout, st, exp1) == st \notin WaitOk
wait_gives_up(timeout, st, exp1) == st \notin WaitOk \/ (timeout # 0 /\ exp1)
wait_ret(n, timeout, fsr0, st, exp1) ==
    IF wait_needed(n, fsr0) /\ wait_gives_up(timeout, st, exp1) THEN 0 ELSE clip(n)

\* socket_write on a slot of the chip with the link up.  sendok: the SEND_OK
\* bit is read set (after k rounds that read it clear); otherwise the loop
\* returns 0 on a status in SendAbort or on the timeout (exp2).
socket_write_run(slot, n, timeout, fsr0, fsr1, st, exp1, ptr, sendok, k) ==
    LET ret == wait_ret(n, timeout, fsr0, st, exp1)
        wait == IF ~wait_needed(n, fsr0) THEN << >>
                ELSE LET round == get_size_log(slot, REG_SNTX_FSR, 0)
                                  \o << read_socket(slot, REG_SNSR) >>
                         RECURSIVE rounds(_)
                         rounds(i) == IF i = 0 THEN << >> ELSE round \o rounds(i - 1)
                     IN rounds(k + 1)
        store == read_pointer(slot, REG_SNTX_WR)
                 \o write_pointer(slot, REG_SNTX_WR, tx_advance(ptr, tx_count(n, ret)))
                 \o << write_buffer(tx_dst_addr(slot, ptr), 20 + slot * 32, tx_count(n, ret)),
                       write_socket(slot, REG_SNCR, CMD_SOCK_SEND),
                       read_socket(slot, REG_SNCR) >>
        ir == read_socket(slot, REG_SNIR)
        poll == Repeat(ir, 1) \o
                (IF sendok
                 THEN LET RECURSIVE rounds(_)
                          rounds(i) == IF i = 0 THEN << >>
                                       ELSE << read_socket(slot, REG_SNSR), ir >> \o rounds(i - 1)
                      IN rounds(k) \o << write_socket(slot, REG_SNIR, SNIR_SEND_OK) >>
                 ELSE LET RECURSIVE rounds(_)
                          rounds(i) == IF i = 0 THEN << >>
                                       ELSE << read_socket(slot, REG_SNSR), ir >> \o rounds(i - 1)
                      IN rounds(k) \o << read_socket(slot, REG_SNSR) >>)
    IN [r |-> IF sendok THEN Int_(ret) ELSE Int_(0),
        log |-> << link_read >> \o get_size_log(slot, REG_SNTX_FSR, 0)
                \o wait \o store \o poll]

\* the chip's answers under which the call above returns
WriteEnv(n, timeout) ==
    { e \in [fsr0 : FreeSizes, fsr1 : FreeSizes, st : DataStatus, exp1 : BOOLEAN,
             exp2 : BOOLEAN, ptr : Pointers, sendok : BOOLEAN, k : 0 .. MaxPolls] :
        \* the clock does not run backwards; without a timeout it is not looked at
        /\ e.exp1 => e.exp2
        /\ timeout = 0 => ~e.exp2
        \* no wait: nothing read in it
        /\ ~wait_needed(n, e.fsr0) => (e.fsr1 = e.fsr0 /\ ~e.exp1)
        \* the wait ends: by giving up, or with enough space
        /\ wait_needed(n, e.fsr0) =>
              (wait_gives_up(timeout, e.st, e.exp1) \/ e.fsr1 >= clip(n))
        \* rounds before the last one saw a good status and no timeout
        /\ (wait_needed(n, e.fsr0) /\ e.k > 0) => e.st \in WaitOk
        \* the send loop ends: SEND_OK, or an abort status or the timeout
        /\ ~e.sendok => (e.st \in SendAbort \/ (timeout # 0 /\ e.exp2))
        /\ (e.sendok /\ e.k > 0) => (e.st \notin SendAbort /\ ~e.exp2) }

socket_write(S) ==
    Idle /\
    \E slot \in S, n \in Lengths, timeout \in Timeouts, phy \in PhyValues :
        LET c == [Call("socket_write", slot) EXCEPT
                    !.length = n, !.timeout = timeout, !.phy = phy]
            first == read_socket(slot, REG_SNTX_FSR)
        IN  /\ UNCHANGED << socknum, udp_slot, conn, src_port, SRC_PORTS, UDP_SOCK, mem, cs, task, dns, sn_port, tx >>
            /\ IF link_status(phy) = 0
               THEN /\ call' = c
                    /\ result' = Raise("AssertionError")
                    /\ bus' = << link_read >>
                    /\ snsr' = AllClosed
               ELSE IF slot > max_sockets
               THEN /\ call' = c
                    /\ result' = Raise("AssertionError")
                    /\ bus' = << link_read >>
                    /\ snsr' = AllClosed
               ELSE IF ~first.ok
               THEN /\ call' = c
                    /\ result' = Raise("ValueError")
                    /\ bus' = << link_read, first >>
                    /\ snsr' = AllClosed
               ELSE \E e \in WriteEnv(n, timeout) :
                    LET o == socket_write_run(slot, n, timeout, e.fsr0, e.fsr1,
                                              e.st, e.exp1, e.ptr, e.sendok, e.k)
                    IN  /\ call' = [c EXCEPT !.st0 = e.st, !.ptr = e.ptr,
                                             !.size = e.fsr0,
                                             !.seen = << e.exp1, e.exp2 >>]
                        /\ result' = o.r
                        /\ bus' = o.log
                        /\ snsr' = Slot_status(AllClosed, slot, e.st)

\* ------------------------------------------- socket_write, step by step
\* The same method followed statement by statement on slot 0, with a clock:
\* tx.pc is the statement the call is at, tx.now the time since `stamp'.
\* Every read of the chip is answered in the step that makes it.
NoWrite == [pc |-> "idle"]
TxLengths == { 0, 100 }
TxStatus == { SNSR_SOCK_ESTABLISHED, SNSR_SOCK_CLOSE_WAIT, SNSR_SOCK_CLOSED }
\* Sn_IR as read: nothing, RECV, SEND_OK, both
IrReads == { 0, 4, SNIR_SEND_OK, SNIR_SEND_OK + 4 }

\* (mutant: any interrupt flag counts as send-complete)
send_ok_nonzero(ir) == ir # 0
\* (ir & SNIR_SEND_OK) == SNIR_SEND_OK  (line 988)
send_ok(ir) == (ir \div SNIR_SEND_OK) % 2 = 1

\* time.time() - stamp > timeout, looked at only with a timeout
expired(t) == t.timeout # 0 /\ t.now > t.timeout

\* `while free_size < ret' (line 971): into the loop body, or past the loop
while_free(t) ==
    IF t.free < t.ret
    THEN [t EXCEPT !.pc = "free_1", !.back = "loop", !.val = << >>]
    ELSE [t EXCEPT !.pc = "transfer"]

tx_call ==
    /\ tx.pc = "idle"
    /\ \E n \in TxLengths, timeout \in Timeouts, phy \in PhyValues :
         LET t0 == [pc |-> "free_1", back |-> "first", n |-> n,
                    timeout |-> timeout, ret |-> clip(n), free |-> 0,
                    val |-> << >>, val_1 |-> << >>, last |-> << >>,
                    updates |-> 0, now |-> 0, st |-> 0, ir |-> 0,
                    exp |-> FALSE, polled |-> FALSE, sent |-> FALSE,
                    cleared |-> FALSE, r |-> None_]
         IN  tx' = IF link_status(phy) = 0
                   THEN [t0 EXCEPT !.pc = "done", !.r = Raise("AssertionError")]
                   ELSE t0
    /\ UNCHANGED << socknum, udp_slot, conn, snsr, src_port, SRC_PORTS, UDP_SOCK, mem, call, result, bus,
                    cs, task, dns, sn_port >>

\* one read of Sn_TX_FSR inside _get_tx_free_size: the first (val_1), then
\* in turn val_1 and val until both are equal; the register changes between
\* two reads at most MaxUpdates times during a call
tx_read_free ==
    /\ tx.pc \in { "free_1", "free_a", "free_b" }
    /\ \E v \in SizeReads :
         LET changed == tx.last # << >> /\ v # tx.last
             t1 == [tx EXCEPT !.last = v,
                              !.updates = IF changed THEN @ + 1 ELSE @]
         IN  /\ changed => tx.updates < MaxUpdates
             /\ tx' = IF tx.pc = "free_1"
                         THEN [t1 EXCEPT !.val_1 = v, !.pc = "free_a"]
                      ELSE IF tx.pc = "free_a"
                         THEN [t1 EXCEPT !.val_1 = v, !.pc = "free_b"]
                      ELSE IF v # tx.val_1
                         THEN [t1 EXCEPT !.val = v, !.pc = "free_a"]
                      ELSE LET t2 == [t1 EXCEPT !.val = v, !.free = from_bytes(v)]
                           IN  IF tx.back = "first" THEN while_free(t2)
                               ELSE [t2 EXCEPT !.pc = "wait_status"]
    /\ UNCHANGED << socknum, udp_slot, conn, snsr, src_port, SRC_PORTS, UDP_SOCK, mem, call, result, bus,
                    cs, task, dns, sn_port >>

\* the status read of the wait loop and its test (lines 973-976)
tx_wait_status ==
    /\ tx.pc = "wait_status"
    /\ \E st \in TxStatus :
         tx' = IF wait_gives_up(tx.timeout, st, tx.now > tx.timeout)
               THEN [tx EXCEPT !.st = st, !.exp = expired(tx), !.ret = 0,
                               !.pc = "transfer"]
               ELSE while_free([tx EXCEPT !.st = st, !.exp = FALSE])
    /\ UNCHANGED << socknum, udp_slot, conn, snsr, src_port, SRC_PORTS, UDP_SOCK, mem, call, result, bus,
                    cs, task, dns, sn_port >>

\* lines 977-986: the pointer, the payload, SEND
tx_transfer ==
    /\ tx.pc = "transfer"
    /\ tx' = [tx EXCEPT !.sent = TRUE, !.pc = "poll"]
    /\ UNCHANGED << socknum, udp_slot, conn, snsr, src_port, SRC_PORTS, UDP_SOCK, mem, call, result, bus,
                    cs, task, dns, sn_port >>

\* the read of Sn_IR in the condition of the send loop (line 988)
tx_poll ==
    /\ tx.pc = "poll"
    /\ \E ir \in IrReads :
         tx' = [tx EXCEPT !.ir = ir,
                          !.pc = IF send_ok(ir) THEN "clear" ELSE "poll_status"]
    /\ UNCHANGED << socknum, udp_slot, conn, snsr, src_port, SRC_PORTS, UDP_SOCK, mem, call, result, bus,
                    cs, task, dns, sn_port >>

\* the status read of the send loop and its test (lines 989-999)
tx_poll_status ==
    /\ tx.pc = "poll_status"
    /\ \E st \in TxStatus :
         tx' = IF st \in SendAbort \/ expired(tx)
               THEN [tx EXCEPT !.st = st, !.exp = expired(tx), !.polled = TRUE,
                               !.pc = "done", !.r = Int_(0)]
               ELSE [tx EXCEPT !.st = st, !.exp = FALSE, !.polled = TRUE,
                               !.pc = "poll"]
    /\ UNCHANGED << socknum, udp_slot, conn, snsr, src_port, SRC_PORTS, UDP_SOCK, mem, call, result, bus,
                    cs, task, dns, sn_port >>

\* lines 1002-1003: _write_snir(SNIR_SEND_OK), return ret
tx_clear ==
    /\ tx.pc = "clear"
    /\ tx' = [tx EXCEPT !.cleared = TRUE, !.pc = "done", !.r = Int_(tx.ret)]
    /\ UNCHANGED << socknum, udp_slot, conn, snsr, src_port, SRC_PORTS, UDP_SOCK, mem, call, result, bus,
                    cs, task, dns, sn_port >>

tx_returns ==
    /\ tx.pc = "done"
    /\ tx' = NoWrite
    /\ UNCHANGED << socknum, udp_slot, conn, snsr, src_port, SRC_PORTS, UDP_SOCK, mem, call, result, bus,
                    cs, task, dns, sn_port >>

\* time passes while the call runs
tick ==
    /\ tx.pc \notin { "idle", "done" }
    /\ tx.now < MaxClock
    /\ tx' = [tx EXCEPT !.now = @ + 1]
    /\ UNCHANGED << socknum, udp_slot, conn, snsr, src_port, SRC_PORTS, UDP_SOCK, mem, call, result, bus,
                    cs, task, dns, sn_port >>

\* --------------------------------- socket_connect, the wait step by step
\* The TCP wait of socket_connect (lines 771-778) followed read by read from
\* the return of _send_socket_cmd(CMD_SOCK_CONNECT): conn.pc is the read the
\* call is at, conn.st the slot's status register, which the chip moves from
\* SYNSENT to ESTABLISHED or to CLOSED and, when the peer closes, from
\* ESTABLISHED to CLOSE_WAIT; conn.status is what the call has last read.
NoConnect ==
    [pc |-> "idle", slot |-> 0, st |-> SNSR_SOCK_CLOSED,
     status |-> SNSR_SOCK_CLOSED, r |-> None_]

\* line 769 has returned: the chip has taken the CONNECT command
conn_command ==
    /\ conn.pc = "idle"
    /\ \E slot \in Slots :
         conn' = [NoConnect EXCEPT !.pc = "cond", !.slot = slot,
                                   !.st = SNSR_SOCK_SYNSENT]
    /\ UNCHANGED << socknum, udp_slot, snsr, src_port, SRC_PORTS, UDP_SOCK, mem, call, result, bus,
                    cs, task, dns, sn_port, tx >>

\* the peer accepts
chip_established ==
    /\ conn.pc \in { "cond", "body" }
    /\ conn.st = SNSR_SOCK_SYNSENT
    /\ conn' = [conn EXCEPT !.st = SNSR_SOCK_ESTABLISHED]
    /\ UNCHANGED << socknum, udp_slot, snsr, src_port, SRC_PORTS, UDP_SOCK, mem, call, result, bus,
                    cs, task, dns, sn_port, tx >>

\* the peer refuses or does not answer in time
chip_timeout ==
    /\ conn.pc \in { "cond", "body" }
    /\ conn.st = SNSR_SOCK_SYNSENT
    /\ conn' = [conn EXCEPT !.st = SNSR_SOCK_CLOSED]
    /\ UNCHANGED << socknum, udp_slot, snsr, src_port, SRC_PORTS, UDP_SOCK, mem, call, result, bus,
                    cs, task, dns, sn_port, tx >>

\* the peer closes the connection it has accepted
chip_close_wait ==
    /\ conn.pc \in { "cond", "body" }
    /\ conn.st = SNSR_SOCK_ESTABLISHED
    /\ conn' = [conn EXCEPT !.st = SNSR_SOCK_CLOSE_WAIT]
    /\ UNCHANGED << socknum, udp_slot, snsr, src_port, SRC_PORTS, UDP_SOCK, mem, call, result, bus,
                    cs, task, dns, sn_port, tx >>

\* the test of the loop condition (line 773)
connected(status) == status = SNSR_SOCK_ESTABLISHED

\* the status read of the loop condition: out of the loop to `return 1', or
\* into the body
conn_cond ==
    /\ conn.pc = "cond"
    /\ conn' = IF connected(conn.st)
               THEN [conn EXCEPT !.status = conn.st, !.pc = "done", !.r = Int_(1)]
               ELSE [conn EXCEPT !.status = conn.st, !.pc = "body"]
    /\ UNCHANGED << socknum, udp_slot, snsr, src_port, SRC_PORTS, UDP_SOCK, mem, call, result, bus,
                    cs, task, dns, sn_port, tx >>

\* the status read of the body (line 777), after the sleep
conn_body ==
    /\ conn.pc = "body"
    /\ conn' = IF connect_failed(conn.st)
               THEN [conn EXCEPT !.status = conn.st, !.pc = "done",
                                 !.r = Raise("RuntimeError")]
               ELSE [conn EXCEPT !.status = conn.st, !.pc = "cond"]
    /\ UNCHANGED << socknum, udp_slot, snsr, src_port, SRC_PORTS, UDP_SOCK, mem, call, result, bus,
                    cs, task, dns, sn_port, tx >>

conn_returns ==
    /\ conn.pc = "done"
    /\ conn' = NoConnect
    /\ UNCHANGED << socknum, udp_slot, snsr, src_port, SRC_PORTS, UDP_SOCK, mem, call, result, bus,
                    cs, task, dns, sn_port, tx >>

\* -------------------------------------------------------------- socket_read
\* received sizes, read lengths and Sn_MR values the chip is tried with
RxSizes == { 0, 4, 8, 100 }
ReadLengths == { 0, 8, 2048 }
ModeValues == { 0, SNMR_TCP, SNMR_UDP }
Tuple_(v) == [t |-> "tuple", v |-> v]

\* _read_snmr: the bytearray read from the mode register
read_snmr_value(m) == Bytes_(m)

\* `status in (SNSR_SOCK_LISTEN, SNSR_SOCK_CLOSED, SNSR_SOCK_CLOSE_WAIT)' of
\* line 915: a bytearray equals no int
read_eof(status) ==
    status.t = "int"
    /\ status.v \in { SNSR_SOCK_LISTEN, SNSR_SOCK_CLOSED, SNSR_SOCK_CLOSE_WAIT }

\* (mutant: the count is not limited to the length asked for)
read_ret_all(rsr, length, snmr) ==
    IF rsr = 0 THEN (IF read_eof(read_snmr_value(snmr)) THEN 0 ELSE -1) ELSE rsr
\* the count socket_read settles on (lines 912-925)
read_ret(rsr, length, snmr) ==
    IF rsr = 0 THEN (IF read_eof(read_snmr_value(snmr)) THEN 0 ELSE -1)
    ELSE IF rsr > length THEN length
    ELSE rsr

\* socket_read on a slot of the chip with the link up; rsr: the received
\* size read (k rounds of the size loop disagree first), snmr: the mode
\* register, ptr: the RX read pointer
socket_read_run(slot, length, rsr, snmr, ptr, k) ==
    LET ret == read_ret(rsr, length, snmr)
        size == get_size_log(slot, REG_SNRX_RSR, k)
        pre == << link_read >> \o size
               \o (IF rsr = 0 THEN << read_socket(slot, REG_SNMR) >> ELSE << >>)
        data == read_pointer(slot, REG_SNRX_RD)
                \o << read(ptr, 24 + slot * 32, ret) >>
                \o write_pointer(slot, REG_SNRX_RD, ptr + ret)
                \o << write_socket(slot, REG_SNCR, CMD_SOCK_RECV),
                      read_socket(slot, REG_SNCR) >>
    IN  IF ret > 0 THEN [r |-> Tuple_(ret), log |-> pre \o data]
        ELSE IF rsr = 0 THEN [r |-> Tuple_(ret), log |-> pre]
        ELSE [r |-> Raise("UnboundLocalError"), log |-> pre]

\* the asserts and the first register access every data call starts with
data_call_entry(slot, phy, reg, check_link) ==
    LET first == read_socket(slot, reg)
        link == IF check_link THEN << link_read >> ELSE << >>
    IN  IF check_link /\ link_status(phy) = 0
        THEN [r |-> Raise("AssertionError"), log |-> link, fails |-> TRUE]
        ELSE IF slot > max_sockets
        THEN [r |-> Raise("AssertionError"), log |-> link, fails |-> TRUE]
        ELSE IF ~first.ok
        THEN [r |-> Raise("ValueError"), log |-> link \o << first >>, fails |-> TRUE]
        ELSE [r |-> None_, log |-> link, fails |-> FALSE]

socket_read(S) ==
    Idle /\
    \E slot \in S, length \in ReadLengths, phy \in PhyValues :
        LET c == [Call("socket_read", slot) EXCEPT !.length = length, !.phy = phy]
            entry == data_call_entry(slot, phy, REG_SNRX_RSR, TRUE)
        IN  /\ UNCHANGED << socknum, udp_slot, conn, src_port, SRC_PORTS, UDP_SOCK, mem, cs, task, dns, sn_port, tx >>
            /\ IF entry.fails
               THEN /\ call' = c
                    /\ result' = entry.r
                    /\ bus' = entry.log
                    /\ snsr' = AllClosed
               ELSE \E rsr \in RxSizes, snmr \in ModeValues, st \in DataStatus,
                       ptr \in Pointers, k \in 0 .. MaxPolls :
                    LET o == socket_read_run(slot, length, rsr, snmr, ptr, k)
                    IN  /\ rsr = 0 \/ snmr = 0
                        /\ rsr > 0 \/ ptr = 0
                        /\ call' = [c EXCEPT !.st0 = st, !.ptr = ptr, !.size = rsr,
                                             !.mode = snmr]
                        /\ result' = o.r
                        /\ bus' = o.log
                        /\ snsr' = Slot_status(AllClosed, slot, st)

\* --------------------------------------------------------- socket_available
\* datagram headers: remote IP (as one number), remote port, payload length
Headers ==
    { [ip |-> 167772165, port |-> 5000, len |-> 4],
      [ip |-> 167772166, port |-> 6000, len |-> 0] }

\* the UDP branch of socket_available (lines 729-741), entered with res > 0
\* and nothing remaining: reads the 8-byte header through socket_read, which
\* is taken to read the received size socket_available has just read
available_udp_run(slot, udp, phy, rsr, hdr, ptr) ==
    LET o == socket_read_run(slot, 8, rsr, 0, ptr, 0)
    IN  IF link_status(phy) = 0
        THEN [r |-> Raise("AssertionError"), log |-> << link_read >>, udp |-> udp]
        ELSE IF o.r.v < 8
        THEN [r |-> Raise("IndexError"), log |-> o.log,
              udp |-> [udp EXCEPT !.remote_ip = hdr.ip]]
        ELSE [r |-> Int_(hdr.len), log |-> o.log,
              udp |-> [bytes_remaining |-> hdr.len, remote_ip |-> hdr.ip,
                       remote_port |-> hdr.port]]

socket_available(S) ==
    Idle /\
    \E slot \in S, sock_type \in Modes, phy \in PhyValues :
        LET c == [Call("socket_available", slot) EXCEPT !.mode = sock_type, !.phy = phy]
            entry == data_call_entry(slot, phy, REG_SNRX_RSR, FALSE)
        IN  /\ UNCHANGED << socknum, conn, src_port, SRC_PORTS, mem, cs, task, dns, sn_port, tx >>
            /\ IF entry.fails
               THEN /\ call' = c
                    /\ result' = entry.r
                    /\ bus' = entry.log
                    /\ snsr' = AllClosed
                    /\ UNCHANGED UDP_SOCK
               ELSE \E rsr \in RxSizes, hdr \in Headers, ptr \in Pointers,
                       k \in 0 .. MaxPolls :
                    LET size == get_size_log(slot, REG_SNRX_RSR, k)
                        parses == sock_type # SNMR_TCP /\ rsr > 0
                                  /\ UDP_SOCK.bytes_remaining = 0
                        o == available_udp_run(slot, UDP_SOCK, phy, rsr, hdr, ptr)
                    IN  /\ parses \/ (ptr = 0 /\ hdr = CHOOSE h \in Headers : TRUE)
                        /\ call' = [c EXCEPT !.size = rsr, !.ptr = ptr,
                                             !.length = IF parses THEN hdr.len ELSE 0]
                        /\ snsr' = AllClosed
                        /\ IF sock_type = SNMR_TCP
                           THEN result' = Int_(rsr) /\ bus' = size /\ UNCHANGED UDP_SOCK
                           ELSE IF rsr = 0
                           THEN result' = Int_(0) /\ bus' = size /\ UNCHANGED UDP_SOCK
                           ELSE IF UDP_SOCK.bytes_remaining # 0
                           THEN /\ result' = Int_(UDP_SOCK.bytes_remaining)
                                /\ bus' = size
                                /\ UNCHANGED UDP_SOCK
                           ELSE /\ result' = o.r
                                /\ bus' = size \o o.log
                                /\ UDP_SOCK' = o.udp
            /\ udp_slot' = udp_slot_after(UDP_SOCK', slot, UDP_SOCK' # UDP_SOCK)

\* ----------------------------------------------------------------- read_udp
\* lengths read_udp is asked for
UdpLengths == { 0, 3, 8 }

\* read_udp: with bytes remaining, socket_read of at most that many; the
\* count it returns, if positive, is taken off the remaining bytes
read_udp(S) ==
    Idle /\
    \E slot \in S, length \in UdpLengths, phy \in PhyValues :
        LET c == [Call("read_udp", slot) EXCEPT !.length = length, !.phy = phy]
            entry == data_call_entry(slot, phy, REG_SNRX_RSR, TRUE)
            remaining == UDP_SOCK.bytes_remaining
            n == IF remaining <= length THEN remaining ELSE length
        IN  /\ UNCHANGED << socknum, conn, src_port, SRC_PORTS, mem, cs, task, dns, sn_port, tx >>
            /\ snsr' = AllClosed
            /\ IF ~(remaining > 0)
               THEN /\ call' = c
                    /\ result' = Int_(-1)
                    /\ bus' = << >>
                    /\ UNCHANGED UDP_SOCK
               ELSE IF entry.fails
               THEN /\ call' = c
                    /\ result' = entry.r
                    /\ bus' = entry.log
                    /\ UNCHANGED UDP_SOCK
               ELSE \E rsr \in RxSizes, snmr \in ModeValues, ptr \in Pointers :
                    \E o \in { socket_read_run(slot, n, rsr, snmr, ptr, 0) } :
                        /\ rsr = 0 \/ snmr = 0
                        /\ rsr > 0 \/ ptr = 0
                        /\ call' = [c EXCEPT !.ptr = ptr, !.size = rsr, !.mode = snmr]
                        /\ result' = o.r
                        /\ bus' = o.log
                        /\ UDP_SOCK' = IF ~IsError(o.r) /\ o.r.v > 0
                                       THEN [UDP_SOCK EXCEPT !.bytes_remaining = @ - o.r.v]
                                       ELSE UDP_SOCK
            /\ udp_slot' = udp_slot_after(UDP_SOCK', slot, FALSE)

\* ------------------------------------------------------------- socket_close
\* values the command register is read back with: cleared, or still the command
CommandReads(cmd) == { 0, cmd }

\* socket_close and socket_disconnect: one write of the command and one read
\* of the command register, whose value (cr) is dropped; a caller that was
\* handed the slot holds it no longer
command_once(op, slot, cmd, cr) ==
    LET w == write_socket(slot, REG_SNCR, cmd)
    IN  /\ call' = [Call(op, slot) EXCEPT !.cr = IF w.ok THEN cr ELSE 0]
        /\ result' = IF w.ok THEN None_ ELSE Raise("ValueError")
        /\ bus' = IF w.ok THEN << w, read_socket(slot, REG_SNCR) >> ELSE << w >>
        /\ snsr' = AllClosed
        /\ socknum' = [t \in Tasks |->
                      IF w.ok /\ socknum[t] = slot THEN SOCKET_INVALID ELSE socknum[t]]
        /\ UNCHANGED << udp_slot, conn, src_port, SRC_PORTS, UDP_SOCK, mem, cs, task, dns, sn_port, tx >>

socket_close(S) ==
    Idle /\
    \E slot \in S, cr \in CommandReads(CMD_SOCK_CLOSE) :
        command_once("socket_close", slot, CMD_SOCK_CLOSE, cr)

\* ------------------------------------------------------- socket_disconnect
socket_disconnect(S) ==
    Idle /\
    \E slot \in S, cr \in CommandReads(CMD_SOCK_DISCON) :
        command_once("socket_disconnect", slot, CMD_SOCK_DISCON, cr)

\* ------------------------------------------------- remote_ip and remote_port
\* destination registers the chip is tried with
RemoteIps == { 167772165 }
RemotePorts == { 80, 5000 }
Str_(v) == [t |-> "str", v |-> v]
\* the scratch buffer self._pbuff, returned as it is
Pbuff_ == [t |-> "pbuff", v |-> 0]

\* the guard of remote_ip and remote_port (lines 311-312, 355-356)
slot_beyond(socket_num, value) ==
    IF socket_num >= max_sockets THEN Pbuff_ ELSE value

remote_ip(S) ==
    Idle /\
    \E slot \in S, ip \in RemoteIps :
        /\ call' = Call("remote_ip", slot)
        /\ result' = slot_beyond(slot, Str_(ip))
        /\ bus' = IF slot >= max_sockets THEN << >>
                  ELSE [i \in 1 .. 4 |-> read_socket(slot, REG_SNDIPR + (i - 1))]
        /\ snsr' = AllClosed
        /\ UNCHANGED << socknum, udp_slot, conn, src_port, SRC_PORTS, UDP_SOCK, mem, cs, task, dns, sn_port, tx >>

remote_port(S) ==
    Idle /\
    \E slot \in S, port \in RemotePorts :
        /\ call' = [Call("remote_port", slot) EXCEPT !.port = port]
        /\ result' = slot_beyond(slot, Int_(port))
        /\ bus' = IF slot >= max_sockets THEN << >>
                  ELSE [i \in 1 .. 2 |-> read_socket(slot, REG_SNDPORT + (i - 1))]
        /\ snsr' = AllClosed
        /\ UNCHANGED << socknum, udp_slot, conn, src_port, SRC_PORTS, UDP_SOCK, mem, cs, task, dns, sn_port, tx >>

\* ------------------------------------------------ _write_with_verification
\* registers, control bytes, values and retry counts the write is tried with
VerifyAddrs == { REG_MR, REG_SIPR }
VerifyCbs == { 0, 4, 12 }
VerifyData == { 0, 128, 192 }
RetryArgs == { 1, 2, 3 }
Bool_(b) == [t |-> "bool", v |-> IF b THEN 1 ELSE 0]

\* the chip: a write of one byte lands in the block its control byte selects,
\* if the control byte is a write and the byte arrives (took)
chip_write(m, addr, cb, data, took) ==
    IF took /\ IsWriteCb(cb) /\ << BlockOf(cb), addr >> \in DOMAIN m
    THEN [m EXCEPT ![<< BlockOf(cb), addr >>] = data]
    ELSE m

\* the control byte of the read-back (lines 387, 600)
verify_cb(callback) == 0

\* the read-back of a register: the transaction with the byte it returned
read_back(m, addr, rcb) ==
    [read(addr, rcb, 1) EXCEPT !.val = m[<< BlockOf(rcb), addr >>]]

\* (mutant: one write, one read-back, and the write counts as verified)
verify_once(m, addr, callback, data, max_retries, took, rc, log) ==
    LET m1 == chip_write(m, addr, callback, data, took[rc + 1])
    IN  [verified |-> TRUE, m |-> m1,
         log |-> log \o << write(addr, callback, data),
                            read_back(m1, addr, verify_cb(callback)) >>]

\* the loop of _write_with_verification and of _write_mr from retry_count rc:
\* took[i] tells whether the i-th write arrives
RECURSIVE verify_from(_, _, _, _, _, _, _, _)
verify_from(m, addr, callback, data, max_retries, took, rc, log) ==
    IF rc >= max_retries THEN [verified |-> FALSE, m |-> m, log |-> log]
    ELSE LET m1 == chip_write(m, addr, callback, data, took[rc + 1])
             log1 == Append(log, write(addr, callback, data))
             rcb == verify_cb(callback)
         IN  IF rc < max_retries - 1
             THEN IF m1[<< BlockOf(rcb), addr >>] = data
                  THEN [verified |-> TRUE, m |-> m1,
                        log |-> Append(log1, read_back(m1, addr, rcb))]
                  ELSE verify_from(m1, addr, callback, data, max_retries, took,
                                   rc + 1, Append(log1, read_back(m1, addr, rcb)))
             ELSE verify_from(m1, addr, callback, data, max_retries, took,
                              rc + 1, log1)

write_with_verification ==
    Idle /\
    \E addr \in VerifyAddrs, callback \in VerifyCbs, data \in VerifyData,
       max_retries \in RetryArgs, took \in [1 .. 3 -> BOOLEAN] :
        LET o == verify_from(mem, addr, callback, data, max_retries, took, 0, << >>)
        IN  /\ \A i \in 1 .. 3 : i > max_retries => took[i]
            /\ call' = [Call("_write_with_verification", 0) EXCEPT
                          !.ptr = addr, !.mode = callback, !.size = data,
                          !.length = max_retries]
            /\ result' = Bool_(o.verified)
            /\ bus' = o.log
            /\ mem' = o.m
            /\ UNCHANGED << socknum, udp_slot, conn, snsr, src_port, SRC_PORTS, UDP_SOCK, cs, task, dns, sn_port, tx >>

\* _write_mr: the same loop on REG_MR with control byte 0x04 and 3 retries
write_mr ==
    Idle /\
    \E data \in VerifyData, took \in [1 .. 3 -> BOOLEAN] :
        LET o == verify_from(mem, REG_MR, 4, data, 3, took, 0, << >>)
        IN  /\ call' = [Call("_write_mr", 0) EXCEPT
                          !.ptr = REG_MR, !.mode = 4, !.size = data, !.length = 3]
            /\ result' = Bool_(o.verified)
            /\ bus' = o.log
            /\ mem' = o.m
            /\ UNCHANGED << socknum, udp_slot, conn, snsr, src_port, SRC_PORTS, UDP_SOCK, cs, task, dns, sn_port, tx >>

\* ------------------------------------------------------------- set_ifconfig
\* the configurations a caller sets
\* (ip_address, subnet_mask, gateway_address, dns_server)
IfconfigParams ==
    { [ip |-> << 192, 168, 1, 10 >>, subnet |-> << 255, 255, 255, 0 >>,
       gateway |-> << 192, 168, 1, 1 >>, dns |-> << 8, 8, 8, 8 >>],
      [ip |-> << 10, 0, 0, 255 >>, subnet |-> << 255, 0, 0, 0 >>,
       gateway |-> << 10, 0, 0, 1 >>, dns |-> << 10, 0, 0, 1 >>] }

\* the twelve verified writes of set_ifconfig, in the order of its three loops
ConfigWrites(params) ==
    [i \in 1 .. 12 |->
        IF i <= 4 THEN [addr |-> REG_SIPR + (i - 1), data |-> params.ip[i]]
        ELSE IF i <= 8 THEN [addr |-> REG_SUBR + (i - 5), data |-> params.subnet[i - 4]]
        ELSE [addr |-> REG_GAR + (i - 9), data |-> params.gateway[i - 8]]]

\* the registers followed in mem: those of RegLocs and the common-block
\* registers set_ifconfig writes
CfgLocs ==
    RegLocs \cup { << 0, REG_SIPR + i >> : i \in 0 .. 3 }
            \cup { << 0, REG_SUBR + i >> : i \in 0 .. 3 }
            \cup { << 0, REG_GAR + i >> : i \in 0 .. 3 }

\* which of the three writes of one _write_with_verification arrive
Tooks == [1 .. 3 -> BOOLEAN]
AllTook == [i \in 1 .. 3 |-> TRUE]

\* the three loops of set_ifconfig from the i-th write on; tk[i] tells which
\* writes of the i-th octet arrive.  The returned flag of each is dropped.
RECURSIVE config_from(_, _, _, _, _)
config_from(m, params, i, tk, log) ==
    IF i > 12 THEN [m |-> m, log |-> log]
    ELSE LET w == ConfigWrites(params)[i]
             o == verify_from(m, w.addr, 4, w.data, 3, tk[i], 0, << >>)
         IN  config_from(o.m, params, i + 1, tk, log \o o.log)

\* call.size: the number of octets with a write that does not arrive
set_ifconfig ==
    Idle /\
    \E params \in IfconfigParams, F \in SUBSET (1 .. 12) :
        /\ Cardinality(F) <= MaxFaulty
        /\ \E pat \in [F -> Tooks \ { AllTook }] :
            LET tk == [i \in 1 .. 12 |-> IF i \in F THEN pat[i] ELSE AllTook]
            IN  \E o \in { config_from(mem, params, 1, tk, << >>) } :
                /\ call' = [Call("set_ifconfig", 0) EXCEPT
                              !.params = params, !.size = Cardinality(F)]
                /\ result' = None_
                /\ bus' = o.log
                /\ mem' = o.m
                /\ dns' = params.dns
                /\ UNCHANGED << socknum, udp_slot, conn, snsr, src_port, SRC_PORTS, UDP_SOCK, cs, task, sn_port, tx >>

\* ----------------------------------------------------------------- ifconfig
\* the tuple ifconfig builds from three 4-byte reads of the common block
\* (control byte 0x00) and self._dns
\* (mutant: the subnet mask and the gateway change places)
ifconfig_swapped(m, d) ==
    << [i \in 1 .. 4 |-> m[<< BlockOf(0), REG_SIPR + (i - 1) >>]],
       [i \in 1 .. 4 |-> m[<< BlockOf(0), REG_GAR + (i - 1) >>]],
       [i \in 1 .. 4 |-> m[<< BlockOf(0), REG_SUBR + (i - 1) >>]], d >>
ifconfig_value(m, d) ==
    << [i \in 1 .. 4 |-> m[<< BlockOf(0), REG_SIPR + (i - 1) >>]],
       [i \in 1 .. 4 |-> m[<< BlockOf(0), REG_SUBR + (i - 1) >>]],
       [i \in 1 .. 4 |-> m[<< BlockOf(0), REG_GAR + (i - 1) >>]], d >>

ifconfig ==
    /\ Idle
    /\ call' = Call("ifconfig", 0)
    /\ result' = Tuple_(ifconfig_value(mem, dns))
    /\ bus' = << read(REG_SIPR, 0, 4), read(REG_SUBR, 0, 4), read(REG_GAR, 0, 4) >>
    /\ UNCHANGED << socknum, udp_slot, conn, snsr, src_port, SRC_PORTS, UDP_SOCK, mem, cs, task, dns, sn_port, tx >>

\* ------------------------------------------- sw_reset, detect_w5500, __init__
\* silicon versions the chip is tried with
Versions == { 4, 0 }
Device_ == [t |-> "WIZNET5K", v |-> 0]

\* sw_reset: read MR, _write_mr(0x80), read MR after the wait; took: which
\* writes arrive, done: the chip has cleared MR by the time it is read again
sw_reset_run(m, took, done) ==
    LET w == verify_from(m, REG_MR, 4, 128, 3, took, 0, << >>)
        m1 == IF done THEN [w.m EXCEPT ![<< 0, REG_MR >>] = 0] ELSE w.m
        mode_reg == m1[<< 0, REG_MR >>]
    IN  [r |-> IF mode_reg # 0 THEN Int_(-1) ELSE Int_(0),
         m |-> m1, mode_reg |-> mode_reg,
         log |-> << read(REG_MR, 0, 1) >> \o w.log \o << read(REG_MR, 0, 1) >>]

\* (mutant: detection fails when the reset or the mode write did not succeed)
detect_w5500_strict(m, took1, done, took2, version) ==
    LET s == sw_reset_run(m, took1, done)
        w == verify_from(s.m, REG_MR, 4, 0, 3, took2, 0, << >>)
    IN  [r |-> IF s.r = Int_(0) /\ w.verified THEN Int_(1) ELSE Int_(0),
         m |-> w.m, mode_reg |-> s.mode_reg, write_success |-> w.verified,
         log |-> s.log \o w.log \o << read(REG_VERSIONR_W5500, 0, 1) >>]

\* detect_w5500: sw_reset, _write_mr(0x00), read of the version register;
\* neither the reset result, the write's flag nor the version changes the 1
detect_w5500_run(m, took1, done, took2, version) ==
    LET s == sw_reset_run(m, took1, done)
        w == verify_from(s.m, REG_MR, 4, 0, 3, took2, 0, << >>)
    IN  [r |-> Int_(1), m |-> w.m, mode_reg |-> s.mode_reg,
         write_success |-> w.verified,
         log |-> s.log \o w.log \o << read(REG_VERSIONR_W5500, 0, 1) >>]

\* (mutant: the last slot is left out)
socket_init_log_short ==
    LET RECURSIVE from(_)
        from(i) == IF i >= W5200_W5500_MAX_SOCK_NUM - 1 THEN << >>
                   ELSE << write(30, 12 + i * 32, 2), write(31, 12 + i * 32, 2) >>
                        \o from(i + 1)
    IN from(0)
\* the buffer-size writes of _w5100_init (lines 493-500)
socket_init_log ==
    LET RECURSIVE from(_)
        from(i) == IF i >= W5200_W5500_MAX_SOCK_NUM THEN << >>
                   ELSE << write(30, 12 + i * 32, 2), write(31, 12 + i * 32, 2) >>
                        \o from(i + 1)
    IN from(0)

w5100_init_run(m, took1, done, took2, version) ==
    LET d == detect_w5500_run(m, took1, done, took2, version)
    IN  IF d.r = Int_(1)
        THEN [d EXCEPT !.log = d.log \o socket_init_log]
        ELSE [d EXCEPT !.r = Int_(0)]

\* WIZNET5K.__init__ without DHCP: _w5100_init, the MAC address, src_port
init_run(m, took1, done, took2, version) ==
    LET i == w5100_init_run(m, took1, done, took2, version)
    IN  IF i.r # Int_(1) THEN [i EXCEPT !.r = Raise("AssertionError")]
        ELSE [i EXCEPT !.r = Device_,
                       !.log = i.log \o << write_buffer(REG_SHAR, 4, 6) >>]

\* what the chip answers during a reset and detection
ResetEnv == [took1 : Tooks, done : BOOLEAN, took2 : Tooks, version : Versions]

sw_reset ==
    Idle /\
    \E took \in Tooks, done \in BOOLEAN :
        \E o \in { sw_reset_run(mem, took, done) } :
            /\ call' = [Call("sw_reset", 0) EXCEPT !.st0 = o.mode_reg]
            /\ result' = o.r
            /\ bus' = o.log
            /\ mem' = o.m
            /\ UNCHANGED << socknum, udp_slot, conn, snsr, src_port, SRC_PORTS, UDP_SOCK, cs, task, dns, sn_port, tx >>

detect_w5500 ==
    Idle /\
    \E e \in ResetEnv :
        \E o \in { detect_w5500_run(mem, e.took1, e.done, e.took2, e.version) } :
            /\ call' = [Call("detect_w5500", 0) EXCEPT
                          !.st0 = o.mode_reg, !.mode = e.version]
            /\ result' = o.r
            /\ bus' = o.log
            /\ mem' = o.m
            /\ UNCHANGED << socknum, udp_slot, conn, snsr, src_port, SRC_PORTS, UDP_SOCK, cs, task, dns, sn_port, tx >>

init ==
    Idle /\
    \E e \in ResetEnv :
        \E o \in { init_run(mem, e.took1, e.done, e.took2, e.version) } :
            /\ call' = [Call("__init__", 0) EXCEPT
                          !.st0 = o.mode_reg, !.mode = e.version]
            /\ result' = o.r
            /\ bus' = o.log
            /\ mem' = o.m
            /\ src_port' = 0
            /\ dns' = 0
            /\ UNCHANGED << socknum, udp_slot, conn, snsr, SRC_PORTS, UDP_SOCK, cs, task, sn_port, tx >>

\* ------------------------------------------------------------ socket_accept
\* remote_ip, remote_port, then get_socket over the statuses st; the slot
\* accepted is not looked at by the scan in any other way than the others
socket_accept(S) ==
    Idle /\
    \E slot \in S, closed \in SUBSET Slots, busy \in BusyStatus,
       ip \in RemoteIps, port \in RemotePorts :
        LET st == [s \in Slots |-> IF s \in closed THEN SNSR_SOCK_CLOSED ELSE busy]
            dest_ip == slot_beyond(slot, Str_(ip))
            dest_port == slot_beyond(slot, Int_(port))
            reads == IF slot >= max_sockets THEN << >>
                     ELSE [i \in 1 .. 4 |-> read_socket(slot, REG_SNDIPR + (i - 1))]
                          \o [i \in 1 .. 2 |-> read_socket(slot, REG_SNDPORT + (i - 1))]
        IN  /\ call' = [Call("socket_accept", slot) EXCEPT
                          !.size = dest_ip.v, !.port = dest_port.v]
            /\ result' = Tuple_(get_socket_result(st))
            /\ bus' = reads \o get_socket_log(st)
            /\ snsr' = st
            /\ UNCHANGED << socknum, udp_slot, conn, src_port, SRC_PORTS, UDP_SOCK, mem, cs, task, dns, sn_port, tx >>

\* ------------------------------------------- read and write, event by event

\* reads and writes the driver issues, and some its callers can provoke
Transfers ==
    { link_read, read(REG_SIPR, 0, 4), read(REG_SHAR, 0, 6), read(REG_MR, 0, 1),
      read(REG_SUBR, 0, 4), read(REG_GAR, 0, 4),
      read_socket(0, REG_SNSR), read_socket(7, REG_SNSR), read_socket(8, REG_SNSR),
      read(2000, 24, 8),
      write(REG_MR, 4, 128), write(REG_SIPR, 4, 192), write(REG_SIPR, 4, 256),
      write_socket(1, REG_SNCR, CMD_SOCK_OPEN), write_socket(9, REG_SNCR, CMD_SOCK_CLOSE),
      write_buffer(REG_SHAR, 4, 6), write_buffer(slot_base(0), 20, 2),
      write_buffer(slot_base(1), 52, 0) }

NoTransfer == [pc |-> "idle", x |-> link_read, i |-> 0, sent |-> << >>, err |-> ""]

\* positions of a task between chip-select low and chip-select high
InFlight == { "hi", "lo", "cb", "data", "cs_high" }

\* the position after the control byte: an empty buffer has no data byte
after_cb(x) == IF x.rw = "W" /\ x.val = -1 /\ x.n = 0 THEN "cs_high" ELSE "data"

\* self._cs.value(0), the first statement of read and of write
transfer_cs_low(T) ==
    \E t \in T, x \in Transfers :
        /\ task[t].pc = "idle"
        /\ cs' = 0
        /\ task' = [task EXCEPT ![t] =
                      [pc |-> "hi", x |-> x, i |-> 0, sent |-> << << "cs", 0 >> >>,
                       err |-> ""]]
        /\ UNCHANGED << socknum, udp_slot, conn, snsr, src_port, SRC_PORTS, UDP_SOCK, mem, dns, sn_port, tx, call, result, bus >>

\* one self._device.write(bytes([..])) or the readinto; bytes([v]) raises
\* ValueError for v outside 0..255, the bus call itself may raise OSError
\* (io = FALSE), and either way the method is left at once
transfer_byte(T) ==
    \E t \in T, io \in BOOLEAN :
        LET k == task[t]
            x == k.x
            put(ev, pc) == IF io THEN [k EXCEPT !.sent = Append(@, ev), !.pc = pc]
                           ELSE [k EXCEPT !.pc = "raised", !.err = "OSError"]
            raised == [k EXCEPT !.pc = "raised", !.err = "ValueError"]
        IN  /\ k.pc \in { "hi", "lo", "cb", "data" }
            /\ task' = [task EXCEPT ![t] =
                 CASE k.pc = "hi" ->
                        IF ByteOk(x.addr \div 256)
                        THEN put(<< "wr", x.addr \div 256 >>, "lo") ELSE raised
                   [] k.pc = "lo" -> put(<< "wr", x.addr % 256 >>, "cb")
                   [] k.pc = "cb" ->
                        IF ByteOk(x.cb) THEN put(<< "wr", x.cb >>, after_cb(x))
                        ELSE raised
                   [] k.pc = "data" /\ x.rw = "R" -> put(<< "rd", x.n >>, "cs_high")
                   [] k.pc = "data" /\ x.rw = "W" /\ x.val # -1 ->
                        IF ByteOk(x.val) THEN put(<< "wr", x.val >>, "cs_high")
                        ELSE raised
                   [] k.pc = "data" /\ x.rw = "W" /\ x.val = -1 ->
                        [put(<< "data", k.i >>,
                             IF k.i + 1 < x.n THEN "data" ELSE "cs_high")
                           EXCEPT !.i = IF io THEN k.i + 1 ELSE k.i]]
            /\ UNCHANGED << socknum, udp_slot, conn, snsr, src_port, SRC_PORTS, UDP_SOCK, mem, dns, sn_port, tx, call, result,
                            bus, cs >>

\* self._cs.value(1), the last statement that touches the bus
transfer_cs_high(T) ==
    \E t \in T :
        /\ task[t].pc = "cs_high"
        /\ cs' = 1
        /\ task' = [task EXCEPT ![t].pc = "done",
                                ![t].sent = Append(@, << "cs", 1 >>)]
        /\ UNCHANGED << socknum, udp_slot, conn, snsr, src_port, SRC_PORTS, UDP_SOCK, mem, dns, sn_port, tx, call, result, bus >>

\* the method returns, or its exception reaches the caller
transfer_returns(T) ==
    \E t \in T :
        /\ task[t].pc \in { "done", "raised" }
        /\ task' = [task EXCEPT ![t] = NoTransfer]
        /\ UNCHANGED << socknum, udp_slot, conn, snsr, src_port, SRC_PORTS, UDP_SOCK, mem, dns, sn_port, tx, call, result,
                        bus, cs >>

\* ------------------------------------------------------------ specification
Init ==
    /\ snsr = AllClosed
    /\ src_port = 0
    /\ SRC_PORTS = [s \in Slots |-> 0]
    /\ UDP_SOCK = [bytes_remaining |-> 0, remote_ip |-> 0, remote_port |-> 0]
    /\ mem = [l \in CfgLocs |-> 0]
    /\ dns = 0
    /\ sn_port = [s \in Slots |-> 0]
    /\ tx = NoWrite
    /\ socknum = [t \in Tasks |-> SOCKET_INVALID]
    /\ udp_slot = SOCKET_INVALID
    /\ conn = NoConnect
    /\ call = Call("idle", 0)
    /\ result = None_
    /\ bus = << >>
    /\ cs = 1
    /\ task = [t \in Tasks |-> NoTransfer]

\* opening, listening and connecting
Next ==
    \/ socket_open(SlotSample)
    \/ socket_listen(SlotSample)
    \/ socket_connect(SlotSample)
    \/ socket_close(SlotSample)
    \/ socket_disconnect(SlotSample)
    \/ call_returns

Spec == Init /\ [][Next]_vars

\* transmission
NextTx ==
    \/ socket_write(SlotSample)
    \/ call_returns

SpecTx == Init /\ [][NextTx]_vars

\* reception
NextRx ==
    \/ socket_read(SlotSample)
    \/ socket_available(SlotSample)
    \/ read_udp(SlotSample)
    \/ call_returns

SpecRx == Init /\ [][NextRx]_vars

\* socket_write statement by statement; every statement is taken in the end,
\* and the clock advances
NextTxSteps ==
    \/ tx_call
    \/ tx_read_free
    \/ tx_wait_status
    \/ tx_transfer
    \/ tx_poll
    \/ tx_poll_status
    \/ tx_clear
    \/ tx_returns
    \/ tick

SpecTxSteps ==
    /\ Init
    /\ [][NextTxSteps]_vars
    /\ WF_vars(tx_read_free)
    /\ WF_vars(tx_wait_status)
    /\ WF_vars(tx_transfer)
    /\ WF_vars(tx_poll)
    /\ WF_vars(tx_poll_status)
    /\ WF_vars(tx_clear)
    /\ WF_vars(tick)

\* the wait of socket_connect read by read; every read is made in the end,
\* and the chip settles the connection attempt one way or the other
NextConnSteps ==
    \/ conn_command
    \/ chip_established
    \/ chip_timeout
    \/ chip_close_wait
    \/ conn_cond
    \/ conn_body
    \/ conn_returns

SpecConnSteps ==
    /\ Init
    /\ [][NextConnSteps]_vars
    /\ WF_vars(conn_cond)
    /\ WF_vars(conn_body)
    /\ WF_vars(chip_established \/ chip_timeout)

\* the size registers
NextSize ==
    \/ get_tx_free_size(SlotSample)
    \/ get_rx_rcv_size(SlotSample)
    \/ call_returns

SpecSize == Init /\ [][NextSize]_vars

\* verified register writes
NextReg ==
    \/ write_with_verification
    \/ write_mr
    \/ call_returns

SpecReg == Init /\ [][NextReg]_vars

\* one task on the bus
NextBus ==
    \/ transfer_cs_low({ 1 })
    \/ transfer_byte({ 1 })
    \/ transfer_cs_high({ 1 })
    \/ transfer_returns({ 1 })

SpecBus == Init /\ [][NextBus]_vars

\* two tasks calling into the driver with nothing to keep them apart
NextBusShared ==
    \/ transfer_cs_low(Tasks)
    \/ transfer_byte(Tasks)
    \/ transfer_cs_high(Tasks)
    \/ transfer_returns(Tasks)

SpecBusShared == Init /\ [][NextBusShared]_vars

\* configuration and initialisation
NextCfg ==
    \/ set_ifconfig
    \/ ifconfig
    \/ sw_reset
    \/ detect_w5500
    \/ init
    \/ call_returns

SpecCfg == Init /\ [][NextCfg]_vars

\* every socket operation, on the last slot of the chip and on the two beyond
SlotEdge == { W5200_W5500_MAX_SOCK_NUM - 1 } \cup BadSlots
NextSlot ==
    \/ socket_open(SlotEdge)
    \/ socket_listen(SlotEdge)
    \/ socket_connect(SlotEdge)
    \/ socket_close(SlotEdge)
    \/ socket_status(SlotEdge)
    \/ socket_read(SlotEdge)
    \/ socket_write(SlotEdge)
    \/ socket_available(SlotEdge)
    \/ remote_ip(SlotEdge)
    \/ remote_port(SlotEdge)
    \/ call_returns

SpecSlot == Init /\ [][NextSlot]_vars

\* allocation of a slot
NextAlloc ==
    \/ get_socket({ 1 })
    \/ socket_accept(SlotSample)
    \/ call_returns

SpecAlloc == Init /\ [][NextAlloc]_vars

\* two callers that each ask for a slot
NextShare ==
    \/ get_socket(Tasks)
    \/ socket_close(SlotPair)
    \/ call_returns

SpecShare == Init /\ [][NextShare]_vars

\* datagrams on two slots
NextUdp ==
    \/ socket_available(SlotPair)
    \/ read_udp(SlotPair)
    \/ socket_connect(SlotPair)
    \/ call_returns

SpecUdp == Init /\ [][NextUdp]_vars

\* ===================================================================== claims
LinkUp == link_status(call.phy) = 1
OpenCalls == { "socket_open", "socket_listen", "socket_connect" }

\* C5: socket_open on a slot whose status is not one of CLOSED, TIME_WAIT,
\* FIN_WAIT, CLOSE_WAIT, CLOSING, UDP, LISTEN fails (returns 1, or raises when
\* the link is down) and issues no register write; the ephemeral-port table
\* and the pending source port are unchanged.
C5_OpenRefusedNoWrite ==
    [][ (call'.op = "socket_open" /\ call'.slot \in Slots
         /\ call'.st0 \notin Openable)
        => /\ result' = Int_(1) \/ result'.t = "AssertionError"
           /\ Writes(bus') = {}
           /\ SRC_PORTS' = SRC_PORTS
           /\ src_port' = src_port ]_vars

C5_Witness ==
    /\ call.op = "socket_open" /\ call.slot \in Slots
    /\ call.st0 = SNSR_SOCK_ESTABLISHED /\ call.phy % 2 = 1
    /\ result = Int_(1)
    /\ Len(bus) = 2

\* C6: get_socket returns the lowest-indexed slot whose status reads CLOSED,
\* never a slot that is not CLOSED, and SOCKET_INVALID (255) when no slot of
\* 0..max_sockets-1 is CLOSED.
C6_GetSocketLowestClosed ==
    call.op = "get_socket" =>
        \/ /\ result.v \in Slots
           /\ snsr[result.v] = SNSR_SOCK_CLOSED
           /\ \A j \in Slots : j < result.v => snsr[j] # SNSR_SOCK_CLOSED
        \/ /\ result.v = SOCKET_INVALID
           /\ \A j \in Slots : snsr[j] # SNSR_SOCK_CLOSED

C6_Witness ==
    /\ call.op = "get_socket"
    /\ result.v = 2
    /\ snsr[0] = SNSR_SOCK_ESTABLISHED /\ snsr[1] = SNSR_SOCK_ESTABLISHED
    /\ snsr[5] = SNSR_SOCK_CLOSED

\* C8 (as claimed): socket_connect, socket_open and socket_listen called while
\* the PHY link is down fail with an error and issue no bus transaction.
C8_LinkDownNoBus ==
    (call.op \in OpenCalls /\ call.phy % 2 = 0)
        => IsError(result) /\ bus = << >>

\* C8 (amended): ... fail with the link-down error having issued exactly one
\* bus transaction, the read of the PHY configuration register that tells the
\* link state: no write and no access to a socket register.
C8_LinkDownOnlyPhyRead ==
    (call.op \in OpenCalls /\ call.phy % 2 = 0)
        => result.t = "AssertionError" /\ bus = << read(REG_PHYCFGR, 0, 1) >>

C8_Witness ==
    /\ call.op = "socket_connect" /\ call.slot = 1 /\ call.port = 80
    /\ call.mode = SNMR_TCP /\ call.phy % 2 = 0
    /\ result.t = "AssertionError"
    /\ Len(bus) = 1

\* C9: after socket_open(slot, mode) returns success the slot's status is
\* UDP (0x22) when mode is UDP and INIT (0x13) when mode is TCP.
C9_OpenStatusMatchesMode ==
    (call.op = "socket_open" /\ result = Int_(0))
        => snsr[call.slot] = (IF call.mode = SNMR_UDP THEN SNSR_SOCK_UDP
                              ELSE SNSR_SOCK_INIT)

\* the payload transactions of a call: writes into a TX buffer block
PayloadWrites(log) ==
    { i \in 1 .. Len(log) : log[i].rw = "W" /\ BlockOf(log[i].cb) % 4 = 2 }

\* the 16-bit value a call stored in a slot's pointer register reg
StoredPointer(log, sock, reg) ==
    LET at(a) == CHOOSE i \in Writes(log) : log[i].addr = a
        a0 == ch_base_msb * 256 + sock * CH_SIZE + reg
    IN 256 * log[at(a0)].val + log[at(a0 + 1)].val

TxDone == call.op = "socket_write" /\ result.t = "int"

\* C1: every payload byte of socket_write is written at an address inside
\* [slot_base, slot_base + 2048) of the slot's own TX block, whatever the
\* write pointer and the payload length.
C1_WriteInsideSlotRegion ==
    TxDone =>
        \A i \in PayloadWrites(bus) :
            /\ BlockOf(bus[i].cb) = SocketTxBlock(call.slot)
            /\ bus[i].addr >= slot_base(call.slot)
            /\ bus[i].addr + bus[i].n <= slot_base(call.slot) + SOCK_SIZE

\* C2: one socket_write call puts at most 2048 payload bytes on the bus
\* before SEND and returns at most 2048.
C2_WriteClipped ==
    TxDone =>
        /\ result.v <= SOCK_SIZE
        /\ \A i \in PayloadWrites(bus) : bus[i].n <= SOCK_SIZE

\* C3: the TX write pointer socket_write stores is the pointer it read plus
\* the number of bytes it reports as written, modulo 65536.
C3_PointerAdvancesByReturned ==
    TxDone =>
        StoredPointer(bus, call.slot, REG_SNTX_WR) = (call.ptr + result.v) % 65536


\* C4: socket_read that finds zero received bytes returns 0 (end of stream)
\* when the slot's status is CLOSE_WAIT, CLOSED or LISTEN, and -1 only when
\* the slot is in another status.  (The driver returns -1 in every status.)
C4_ReadEofOnCloseWait ==
    (call.op = "socket_read" /\ result.t = "tuple" /\ call.size = 0) =>
        (result.v = 0 <=>
            call.st0 \in { SNSR_SOCK_CLOSE_WAIT, SNSR_SOCK_CLOSED, SNSR_SOCK_LISTEN })

\* C7: when _write_with_verification or _write_mr has returned True for
\* (address, control byte, data), the register at that address in the block
\* the control byte selects holds data, so a read issued next returns it.
\* (The read-back is always of the common block.)
C7_VerifiedWriteReadsBack ==
    (call.op \in { "_write_with_verification", "_write_mr" } /\ result = Bool_(TRUE)) =>
        mem[<< BlockOf(call.mode), call.ptr >>] = call.size

\* C10: each of the ten socket operations called with a slot >= max_sockets
\* ends in an error and completes no transaction on a socket block.
\* (remote_ip and remote_port return the scratch buffer.)
SocketOps ==
    { "socket_open", "socket_listen", "socket_connect", "socket_close",
      "socket_status", "socket_read", "socket_write", "socket_available",
      "remote_ip", "remote_port" }
C10_BadSlotSignalled ==
    (call.op \in SocketOps /\ call.slot >= max_sockets) =>
        /\ IsError(result)
        /\ \A i \in DOMAIN bus : bus[i].ok => BlockOf(bus[i].cb) = 0


\* the writes of one value to one register in a call's transactions
WritesOf(log, addr, val) ==
    { i \in Writes(log) : log[i].addr = addr /\ log[i].val = val }

\* C11: when a verified write stays unconfirmed through its three attempts,
\* the operation that asked for it fails: set_ifconfig does not return
\* normally, detect_w5500 does not return 1.  (All three attempts written
\* means the loop ended without a confirming read-back.)
C11_UnconfirmedWriteFails ==
    /\ (call.op = "set_ifconfig"
        /\ \E i \in 1 .. 12 :
              Cardinality(WritesOf(bus, ConfigWrites(call.params)[i].addr,
                                   ConfigWrites(call.params)[i].data)) = 3)
       => IsError(result)
    /\ (call.op = "detect_w5500" /\ Cardinality(WritesOf(bus, REG_MR, 0)) = 3)
       => result # Int_(1)

\* C12: when the mode register does not read back zero after the software
\* reset, construction of the device fails with an error and the buffer-size
\* registers of the sockets are not written.
C12_ResetTimeoutFatal ==
    (call.op = "__init__" /\ call.st0 # 0) =>
        /\ IsError(result)
        /\ \A i \in Writes(bus) : bus[i].addr \notin { 30, 31 }


\* C13: with two tasks calling into the driver, at most one of them is
\* between its chip-select low and its chip-select high at any time.
C13_OneTransferInFlight ==
    Cardinality({ t \in Tasks : task[t].pc \in InFlight }) <= 1

\* the events of a whole transfer, in the order the claim gives
TransferEvents(x) ==
    << << "cs", 0 >>, << "wr", x.addr \div 256 >>, << "wr", x.addr % 256 >>,
       << "wr", x.cb >> >>
    \o (IF x.rw = "R" THEN << << "rd", x.n >> >>
        ELSE IF x.val # -1 THEN << << "wr", x.val >> >>
        ELSE [j \in 1 .. x.n |-> << "data", j - 1 >>])
    \o << << "cs", 1 >> >>

\* C14: a read or write that has ended has put exactly the events chip-select
\* low, address high, address low, control byte, the data bytes in index
\* order, chip-select high on the bus, and chip-select is high whenever the
\* task is in no transfer.
C14_TransferFramed ==
    /\ task[1].pc \in { "done", "raised" } => task[1].sent = TransferEvents(task[1].x)
    /\ task[1].pc \notin InFlight => cs = 1


\* C15: socket_close and socket_disconnect return normally only when the
\* last read of the command register gave 0.
C15_CommandCleared ==
    (call.op \in { "socket_close", "socket_disconnect" } /\ result = None_) =>
        call.cr = 0


\* the statuses a call's wait loop has read are the last reads on the bus,
\* all of the slot's status register, after the command `cmd' was written
WaitFollows(cmd) ==
    /\ \E j \in Writes(bus) :
          /\ bus[j].val = cmd
          /\ bus[j].addr = write_socket(call.slot, REG_SNCR, cmd).addr
          /\ j <= Len(bus) - Len(call.seen)
    /\ \A j \in 1 .. Len(bus) :
          j > Len(bus) - Len(call.seen) => bus[j] = read_socket(call.slot, REG_SNSR)

TcpConnect == call.op = "socket_connect" /\ call.mode = SNMR_TCP

C17_ListenObservesReady ==
    call.op = "socket_listen" =>
        /\ result = None_ =>
              /\ call.seen # << >>
              /\ Last(call.seen) \in
                    { SNSR_SOCK_LISTEN, SNSR_SOCK_ESTABLISHED, SNSR_SOCK_UDP }
              /\ WaitFollows(CMD_SOCK_LISTEN)
        /\ (\E i \in DOMAIN call.seen : call.seen[i] = SNSR_SOCK_CLOSED)
              => IsError(result)

\* a listen that polled a pending status before the ready one
C17_Witness ==
    /\ call.op = "socket_listen"
    /\ result = None_
    /\ Len(call.seen) = 2
    /\ call.seen[1] = SNSR_SOCK_INIT


\* the payload transaction of a socket_read: the read of an RX buffer block
PayloadReads(log) ==
    { i \in 1 .. Len(log) : log[i].rw = "R" /\ BlockOf(log[i].cb) % 4 = 3 }

\* a socket_read that found data waiting (call.size bytes)
RxData == call.op = "socket_read" /\ call.size > 0

\* C18: socket_read that finds n > 0 bytes returns min(n, max_length), having
\* read that many bytes, stores the read pointer advanced by that count
\* modulo 65536, and writes the RECV command after the pointer.
C18_ReadCountAndPointer ==
    RxData =>
        LET count == Min(call.size, call.length)
            recv == write_socket(call.slot, REG_SNCR, CMD_SOCK_RECV)
            ptr_writes == { j \in Writes(bus) :
                              bus[j].addr \in { recv.addr - REG_SNCR + REG_SNRX_RD,
                                                recv.addr - REG_SNCR + REG_SNRX_RD + 1 } }
        IN  /\ result = Tuple_(count)
            /\ \A j \in PayloadReads(bus) : bus[j].n = count
            /\ StoredPointer(bus, call.slot, REG_SNRX_RD) = (call.ptr + count) % 65536
            /\ \E j \in Writes(bus) :
                  /\ bus[j] = recv
                  /\ \A p \in ptr_writes : p < j
                  /\ Cardinality(ptr_writes) = 2

\* the address socket_read starts at when the read pointer is 0 (line 933)
RxBaseAtZero == 0

\* C19: the payload transaction starts at (pointer mod 2048) plus the slot's
\* buffer base, in socket_write with the TX write pointer and in socket_read
\* with the RX read pointer.
C19_PayloadStartAddress ==
    /\ TxDone =>
          \A i \in PayloadWrites(bus) :
              bus[i].addr = (call.ptr % SOCK_SIZE) + slot_base(call.slot)
    /\ RxData =>
          \A i \in PayloadReads(bus) :
              bus[i].addr = (call.ptr % SOCK_SIZE) + RxBaseAtZero


\* C20: socket_accept writes no register, reads the remote IP and port from
\* the accepted slot's destination registers, and returns a next slot whose
\* status is CLOSED and which is not the accepted slot.
C20_AcceptNextSlot ==
    call.op = "socket_accept" =>
        /\ Writes(bus) = { }
        /\ \A a \in { REG_SNDIPR + d : d \in 0 .. 3 } \cup { REG_SNDPORT, REG_SNDPORT + 1 } :
              \E j \in DOMAIN bus : bus[j] = read_socket(call.slot, a)
        /\ result.v \in Slots
        /\ snsr[result.v] = SNSR_SOCK_CLOSED
        /\ result.v # call.slot

\* C21: after set_ifconfig((ip, subnet, gateway, dns)) on a chip where every
\* write arrives, ifconfig gives back the same ip, subnet, gateway and dns.
C21_IfconfigRoundTrip ==
    (call.op = "set_ifconfig" /\ call.size = 0) =>
        ifconfig_value(mem, dns) =
            << call.params.ip, call.params.subnet, call.params.gateway,
               call.params.dns >>

\* ifconfig has returned the second configuration, set over the first
C21_Witness ==
    /\ call.op = "ifconfig"
    /\ result.v[1] = << 10, 0, 0, 255 >>
    /\ result.v[2] = << 255, 0, 0, 0 >>
    /\ result.v[4] = << 10, 0, 0, 1 >>

\* C22: when the version register reads 0x04, detect_w5500 reports the chip
\* as a w5500 (returns 1 with the chip type set) without raising, and
\* max_sockets is 8 afterwards.
C22_DetectW5500 ==
    (call.op = "detect_w5500" /\ call.mode = 4) =>
        /\ result = Int_(1)
        /\ chip_type = "w5500"
        /\ max_sockets = 8

\* detection with version 0x04 on a chip whose reset had not completed
C22_Witness ==
    /\ call.op = "detect_w5500"
    /\ call.mode = 4
    /\ call.st0 # 0
    /\ result = Int_(1)

\* the SEND commands and the TX write pointer bytes a call wrote for a slot
SendIssued(log, sock) ==
    { i \in Writes(log) :
        /\ log[i].addr = ch_base_msb * 256 + sock * CH_SIZE + REG_SNCR
        /\ log[i].val = CMD_SOCK_SEND }
PointerWrites(log, sock) ==
    { i \in Writes(log) :
        log[i].addr \in { ch_base_msb * 256 + sock * CH_SIZE + REG_SNTX_WR + d :
                           d \in 0 .. 1 } }

\* C23: when socket_write stops waiting for TX space because the slot left
\* ESTABLISHED/CLOSE_WAIT or the timeout elapsed, it returns 0 and has
\* written no payload byte, no TX write pointer and no SEND command.
C23_WaitAbortWritesNothing ==
    (/\ TxDone
     /\ wait_needed(call.length, call.size)
     /\ wait_gives_up(call.timeout, call.st0, call.seen[1])) =>
        /\ result = Int_(0)
        /\ PayloadWrites(bus) = {}
        /\ PointerWrites(bus, call.slot) = {}
        /\ SendIssued(bus, call.slot) = {}

\* C24: socket_write writes payload and issues SEND only on a slot whose
\* status is ESTABLISHED, CLOSE_WAIT or UDP; in any other status it writes
\* no payload and issues no SEND, even with enough TX space free.
C24_WriteOnlyWhenConnected ==
    (/\ TxDone
     /\ call.st0 \notin { SNSR_SOCK_ESTABLISHED, SNSR_SOCK_CLOSE_WAIT,
                           SNSR_SOCK_UDP }) =>
        /\ PayloadWrites(bus) = {}
        /\ SendIssued(bus, call.slot) = {}

\* C25: when socket_open allocates an ephemeral source port, the port lies
\* in 49152..65535 and differs from the source port assigned to every other
\* slot, whether that port was ephemeral or given by the caller to listen.
C25_EphemeralPortUnique ==
    (/\ call.op = "socket_open"
     /\ src_port = 0
     /\ port_written([s \in Slots |-> 0], call.slot, bus)
            # [s \in Slots |-> 0]) =>
        /\ sn_port[call.slot] \in 49152 .. 65535
        /\ \A s \in Slots \ { call.slot } : sn_port[s] # sn_port[call.slot]

VerifiedWrites == { "_write_with_verification", "_write_mr" }
\* the read-backs of a verified write that returned the data written
ReadBacksEqual(log, data) ==
    { i \in 1 .. Len(log) : log[i].rw = "R" /\ log[i].val = data }

\* C26: a verified write with max_retries = k performs at most k writes and
\* at most k - 1 read-backs, writes no more once a read-back has returned the
\* data, and returns true exactly when some read-back returned the data.
C26_VerifiedWriteBounded ==
    call.op \in VerifiedWrites =>
        /\ Cardinality(Writes(bus)) <= call.length
        /\ Len(bus) - Cardinality(Writes(bus)) <= call.length - 1
        /\ \A r \in ReadBacksEqual(bus, call.size) :
              \A w \in Writes(bus) : w < r
        /\ (result = Bool_(TRUE)) <=> (ReadBacksEqual(bus, call.size) # {})

\* three writes, the first two lost, no read-back after the third: false
C26_Witness ==
    /\ call.op = "_write_with_verification"
    /\ call.length = 3
    /\ Cardinality(Writes(bus)) = 3
    /\ Len(bus) = 5
    /\ result = Bool_(FALSE)
    /\ mem[<< BlockOf(call.mode), call.ptr >>] = call.size

SizeCalls == { "_get_tx_free_size", "_get_rx_rcv_size" }

\* C27: the value _get_tx_free_size and _get_rx_rcv_size return is one that
\* two consecutive reads of the size register both returned (the last two);
\* a value only one read returned is never the result.
C27_SizeReadTwice ==
    (call.op \in SizeCalls /\ result.t = "int") =>
        LET n == Len(call.seen)
        IN  /\ n >= 2
            /\ call.seen[n - 1] = call.seen[n]
            /\ result.v = call.seen[n][1] * 256 + call.seen[n][2]

\* the register changed twice under the reads: 0, then 2048, then 100 twice
C27_Witness ==
    /\ call.op = "_get_tx_free_size"
    /\ call.seen = << << 0, 0 >>, << 8, 0 >>, << 0, 0 >>, << 0, 100 >>, << 0, 100 >> >>
    /\ result = Int_(100)

\* C28: with a timeout and a clock that advances, every socket_write call
\* returns in the end, whatever the chip answers: also when it never frees
\* TX space and never sets the send-complete bit.
C28_WriteReturns ==
    (tx.pc \notin { "idle", "done" } /\ tx.timeout > 0) ~> (tx.pc = "done")

\* the call has returned 0 from the send loop on the timeout alone: SEND
\* issued, the bit never read set, the status still ESTABLISHED
C28_Witness ==
    /\ tx.pc = "done"
    /\ tx.timeout > 0
    /\ tx.sent /\ ~tx.cleared /\ tx.polled
    /\ tx.st = SNSR_SOCK_ESTABLISHED
    /\ tx.exp
    /\ tx.r = Int_(0)

\* C29: after SEND, socket_write returns a nonzero count only after it has
\* read the send-complete bit set in Sn_IR, and it clears the bit before it
\* returns; it returns 0 when, before the bit is seen, the status read is
\* CLOSED, TIME_WAIT, FIN_WAIT, CLOSE_WAIT or CLOSING or the timeout has
\* elapsed, and it polls on only after a read that was neither.
C29_SendCompletion ==
    LET Abort == { SNSR_SOCK_CLOSED, SNSR_SOCK_TIME_WAIT, SNSR_SOCK_FIN_WAIT,
                   SNSR_SOCK_CLOSE_WAIT, SNSR_SOCK_CLOSING }
        bit == (tx.ir \div 16) % 2 = 1
    IN  /\ (tx.pc = "done" /\ tx.r.t = "int" /\ tx.r.v > 0) =>
              (tx.sent /\ bit /\ tx.cleared)
        /\ (tx.pc = "done" /\ tx.cleared) => (tx.sent /\ bit)
        /\ (tx.pc = "done" /\ tx.sent /\ ~tx.cleared) =>
              (tx.r = Int_(0) /\ ~bit /\ (tx.st \in Abort \/ tx.exp))
        /\ (tx.pc = "poll" /\ tx.polled) => (tx.st \notin Abort /\ ~tx.exp)

\* 100 bytes sent: the bit read clear once, then set, cleared, 100 returned
C29_Witness ==
    /\ tx.pc = "done"
    /\ tx.polled /\ tx.cleared
    /\ tx.ir = SNIR_SEND_OK + 4
    /\ tx.r = Int_(100)

\* C30: once socket_available has parsed a datagram header announcing L
\* payload bytes, the remaining-bytes counter is L; every read_udp returns at
\* most the counter and takes what it returned off it, so the calls return L
\* bytes in total by the time the counter is 0; the counter is never
\* negative, and a header is parsed only with the counter at 0.
C30_UdpRemaining ==
    [][ /\ UDP_SOCK'.bytes_remaining >= 0
        /\ (call'.op = "read_udp" /\ result'.t = "tuple") =>
              /\ result'.v <= UDP_SOCK.bytes_remaining
              /\ UDP_SOCK'.bytes_remaining =
                    UDP_SOCK.bytes_remaining - (IF result'.v > 0 THEN result'.v ELSE 0)
        /\ (call'.op = "read_udp" /\ result'.t # "tuple") => UDP_SOCK' = UDP_SOCK
        /\ (call'.op = "socket_available" /\ UDP_SOCK' # UDP_SOCK) =>
              /\ UDP_SOCK.bytes_remaining = 0
              /\ ~IsError(result') => UDP_SOCK'.bytes_remaining = call'.length
        /\ call'.op \in { "idle", "socket_read" } => UDP_SOCK' = UDP_SOCK ]_vars

\* a datagram of 4 bytes read in two calls: 3 bytes, then the last one
C30_Witness ==
    /\ call.op = "read_udp"
    /\ call.length = 3
    /\ result = Tuple_(1)
    /\ UDP_SOCK.bytes_remaining = 0

\* C31: a socket_listen that gets as far as programming the source port of
\* its slot leaves the requested port in the slot's source-port register,
\* whatever the port, and never an ephemeral one.
C31_ListenPortProgrammed ==
    (/\ call.op = "socket_listen"
     /\ port_written([s \in Slots |-> 0], call.slot, bus)
            # [s \in Slots |-> 0]) =>
        sn_port[call.slot] = call.port

\* the writes among the transactions of a call, in the order issued
IsWrite(x) == x.rw = "W"

\* the register writes of socket_open on the slot of the call, and those
\* socket_connect adds after it
OpenWrites ==
    << write_socket(call.slot, REG_SNMR, call.mode),
       write_socket(call.slot, REG_SNIR, 255),
       write_socket(call.slot, REG_SNPORT, sn_port[call.slot] \div 256),
       write_socket(call.slot, REG_SNPORT + 1, sn_port[call.slot] % 256),
       write_socket(call.slot, REG_SNCR, CMD_SOCK_OPEN) >>
ConnectWrites ==
    << write_socket(call.slot, REG_SNDIPR, DestIp[1]),
       write_socket(call.slot, REG_SNDIPR + 1, DestIp[2]),
       write_socket(call.slot, REG_SNDIPR + 2, DestIp[3]),
       write_socket(call.slot, REG_SNDIPR + 3, DestIp[4]),
       write_socket(call.slot, REG_SNDPORT, call.port \div 256),
       write_socket(call.slot, REG_SNDPORT + 1, call.port % 256),
       write_socket(call.slot, REG_SNCR, CMD_SOCK_CONNECT) >>

\* C32: the register writes of a socket_connect are, in this order, the
\* protocol mode, the interrupt clear, the source port, the OPEN command, the
\* destination address, the destination port and the CONNECT command, or
\* the first five of them, or none; the CONNECT command is among them only
\* when socket_open returned 0 (link up, openable status on entry, INIT or
\* UDP read after OPEN).
C32_ConnectWriteOrder ==
    (call.op = "socket_connect" /\ call.slot \in Slots) =>
        /\ SelectSeq(bus, IsWrite) \in
              { << >>, OpenWrites, OpenWrites \o ConnectWrites }
        /\ (\E i \in Writes(bus) : bus[i] = ConnectWrites[7]) =>
              /\ LinkUp
              /\ open_allowed(call.st0)
              /\ open_reached(call.post, call.post)
              /\ SelectSeq(bus, IsWrite) = OpenWrites \o ConnectWrites

\* a TCP connect on slot 1 that found the connection established
C32_Witness ==
    /\ call.op = "socket_connect"
    /\ call.slot = 1
    /\ call.mode = SNMR_TCP
    /\ result = Int_(1)
    /\ Len(SelectSeq(bus, IsWrite)) = 12

\* the transactions of the soft reset and of the chip detection: those on
\* the mode register and on the version register of the common block
ResetOrDetect(x) ==
    BlockOf(x.cb) = 0 /\ x.addr \in { REG_MR, REG_VERSIONR_W5500 }

\* C33: when __init__ has returned the device, the log of the call holds,
\* for every slot 0 .. max_sockets - 1, a write of 2 to the RX buffer-size
\* register (0x1E) and one to the TX buffer-size register (0x1F) of the
\* slot's register block, and every write to these two registers comes
\* after all transactions of the soft reset and of the chip detection.
C33_BufferSizesAfterDetect ==
    (call.op = "__init__" /\ result = Device_) =>
        /\ \A s \in 0 .. (max_sockets - 1) : \A reg \in { 30, 31 } :
              \E i \in Writes(bus) :
                 /\ bus[i].addr = reg
                 /\ BlockOf(bus[i].cb) = 4 * s + 1
                 /\ bus[i].val = 2
                 /\ bus[i].ok
        /\ \A i \in Writes(bus) :
              (bus[i].addr \in { 30, 31 } /\ BlockOf(bus[i].cb) % 4 = 1) =>
                 /\ bus[i].val = 2
                 /\ \E j \in 1 .. (i - 1) : ResetOrDetect(bus[j])
                 /\ \A j \in (i + 1) .. Len(bus) : ~ResetOrDetect(bus[j])

\* an initialisation whose reset the chip had not finished when it was read
C33_Witness ==
    /\ call.op = "__init__"
    /\ result = Device_
    /\ call.st0 # 0
    /\ Len(bus) > 2 * max_sockets

\* C34: the write helper and the read helper for socket registers address
\* the same place of the chip: in socket_close and socket_disconnect, the
\* write of the command register and the read of the command register that
\* follows it carry the same block-select bits and the same 16-bit address.
C34_SameRegisterAddressed ==
    (/\ call.op \in { "socket_close", "socket_disconnect" }
     /\ call.slot \in Slots
     /\ Len(bus) = 2) =>
        /\ bus[1].rw = "W" /\ bus[2].rw = "R"
        /\ BlockOf(bus[1].cb) = BlockOf(bus[2].cb)
        /\ bus[1].addr = bus[2].addr

\* C35: no two callers hold the same slot: a slot get_socket has handed to
\* one caller is not handed to another before it has been closed.
C35_SlotHandedOnce ==
    \A t \in Tasks : \A u \in Tasks \ { t } :
        socknum[t] \in Slots => socknum[u] # socknum[t]

\* C36: while the receive-header cache holds the header of a datagram of
\* slot B with bytes remaining, a socket_available, read_udp or
\* socket_connect on another slot leaves the cache as it is.
C36_CachePerSlot ==
    [][ (/\ udp_slot \in Slots
         /\ call'.op \in { "socket_available", "read_udp", "socket_connect" }
         /\ call'.slot # udp_slot) =>
            UDP_SOCK' = UDP_SOCK ]_vars

\* C37: once socket_listen has ended, by returning or by raising, the
\* pending source port self.src_port is 0.
C37_ListenResetsSrcPort ==
    call.op = "socket_listen" => src_port = 0

\* C38: a TCP socket_connect that waits for the connection ends, by
\* returning or raising, once the chip has settled the attempt.
C38_ConnectReturns ==
    (conn.pc \in { "cond", "body" }) ~> (conn.pc = "done")

\* C39: when a read or a write has ended, by returning or by an exception
\* raised partway, chip-select is high.
C39_ChipSelectReleased ==
    task[1].pc \in { "done", "raised" } => cs = 1

\* C40: when _write_with_verification or _write_mr returns False, the
\* register the control byte selects at the address does not hold data.
C40_FalseOnlyIfNotHeld ==
    (call.op \in VerifiedWrites /\ result = Bool_(FALSE)) =>
        mem[<< BlockOf(call.mode), call.ptr >>] # call.size
====
